---- MODULE Spec2Model ----
(***************************************************************************)
(* Model of the invoice field-extraction backend (Tally-Exporter):         *)
(*   services/invoice_detector.py   detect_invoice_type                    *)
(*   parsers/base_parser.py         BaseParser helpers                     *)
(*   parsers/{cloudxp,rjil,jtl}_parser.py   the three extractors           *)
(*   main.py                        process_invoices (the batch loop)      *)
(* Texts are TLA+ strings; Python's re and datetime.strptime are modelled  *)
(* by a backtracking matcher with Python's priorities (first alternative,  *)
(* greedy before lazy), so that captures are what re.search returns.       *)
(***************************************************************************)
EXTENDS Integers, Sequences, FiniteSets, TLC

(***************************************************************************)
(* Characters and Python str methods                                       *)
(***************************************************************************)
UpperAlpha == "ABCDEFGHIJKLMNOPQRSTUVWXYZ"
LowerAlpha == "abcdefghijklmnopqrstuvwxyz"
DigitChars == "0123456789"

CharsOf(s) == { SubSeq(s, k, k) : k \in 1..Len(s) }

UpperLetters == CharsOf(UpperAlpha)
LowerLetters == CharsOf(LowerAlpha)
Digits == CharsOf(DigitChars)
\* U+2013 EN DASH of the source; TLA+ strings are ASCII, "~" stands for it
EnDash == "~"
\* Python's None, and the AttributeError a str method raises on None.
\* No text of the model contains "<".
None == "<None>"
AttributeError == "<AttributeError>"

CharLower ==
    [A |-> "a", B |-> "b", C |-> "c", D |-> "d", E |-> "e", F |-> "f", G |-> "g", H |-> "h", I |-> "i",
     J |-> "j", K |-> "k", L |-> "l", M |-> "m", N |-> "n", O |-> "o", P |-> "p", Q |-> "q", R |-> "r",
     S |-> "s", T |-> "t", U |-> "u", V |-> "v", W |-> "w", X |-> "x", Y |-> "y", Z |-> "z"]
CharUpper ==
    [a |-> "A", b |-> "B", c |-> "C", d |-> "D", e |-> "E", f |-> "F", g |-> "G", h |-> "H", i |-> "I",
     j |-> "J", k |-> "K", l |-> "L", m |-> "M", n |-> "N", o |-> "O", p |-> "P", q |-> "Q", r |-> "R",
     s |-> "S", t |-> "T", u |-> "U", v |-> "V", w |-> "W", x |-> "X", y |-> "Y", z |-> "Z"]

\* str.lower() / str.upper() on the ASCII texts of the model
\* (halving keeps the recursion shallow on long texts)
RECURSIVE StrLower(_)
StrLower(s) ==
    IF s = "" THEN ""
    ELSE IF Len(s) = 1 THEN (IF s \in UpperLetters THEN CharLower[s] ELSE s)
    ELSE LET h == Len(s) \div 2
         IN  StrLower(SubSeq(s, 1, h)) \o StrLower(SubSeq(s, h + 1, Len(s)))

RECURSIVE StrUpper(_)
StrUpper(s) ==
    IF s \in {None, AttributeError} THEN AttributeError
    ELSE IF s = "" THEN ""
    ELSE IF Len(s) = 1 THEN (IF s \in LowerLetters THEN CharUpper[s] ELSE s)
    ELSE LET h == Len(s) \div 2
         IN  StrUpper(SubSeq(s, 1, h)) \o StrUpper(SubSeq(s, h + 1, Len(s)))

\* Python's truth value of an Optional[str]
Truthy(v) == v # None /\ v # ""

\* `v or ""`
OrEmpty(v) == IF Truthy(v) THEN v ELSE ""

Whitespace == {" ", "\n", "\t"}

Min(S) == CHOOSE i \in S : \A j \in S : i <= j
Max(S) == 0 - Min({ 0 - i : i \in S })

\* str.strip(); on None it raises AttributeError
Strip(s) ==
    IF s \in {None, AttributeError} THEN AttributeError
    ELSE LET keep == { i \in 1..Len(s) : SubSeq(s, i, i) \notin Whitespace }
         IN  IF keep = {} THEN "" ELSE SubSeq(s, Min(keep), Max(keep))

\* position of the first occurrence of sub in s at or after `from`, 0 if none
\* (str.find + 1)
Find(s, sub, from) ==
    LET hits == { i \in from..(Len(s) - Len(sub) + 1) : SubSeq(s, i, i + Len(sub) - 1) = sub }
    IN  IF hits = {} THEN 0 ELSE Min(hits)

\* `sub in s`
Contains(s, sub) == Find(s, sub, 1) # 0

\* s.startswith(p)
StartsWith(s, p) == Len(s) >= Len(p) /\ SubSeq(s, 1, Len(p)) = p

\* s.replace(a, b) for a single character a
RECURSIVE Replace(_, _, _)
Replace(s, a, b) ==
    IF s \in {None, AttributeError} THEN AttributeError
    ELSE IF s = "" THEN ""
    ELSE IF Len(s) = 1 THEN (IF s = a THEN b ELSE s)
    ELSE LET h == Len(s) \div 2
         IN  Replace(SubSeq(s, 1, h), a, b) \o Replace(SubSeq(s, h + 1, Len(s)), a, b)

\* s.split(sep): the list of pieces
RECURSIVE Split(_, _)
Split(s, sep) ==
    LET p == Find(s, sep, 1)
    IN  IF p = 0 THEN <<s>>
        ELSE <<SubSeq(s, 1, p - 1)>> \o Split(SubSeq(s, p + Len(sep), Len(s)), sep)

\* s.split(sep, 1)
Split1(s, sep) ==
    LET p == Find(s, sep, 1)
    IN  IF p = 0 THEN <<s>>
        ELSE <<SubSeq(s, 1, p - 1), SubSeq(s, p + Len(sep), Len(s))>>

(***************************************************************************)
(* Regular expressions: the part of Python's re the source uses.           *)
(* A pattern is a tree.  M(re, txt, i, caps) is the sequence of all the    *)
(* ways re matches txt from position i, each with its end and its groups,  *)
(* in the order in which Python's backtracking matcher finds them (first   *)
(* alternative first, greedy repetitions longest first, lazy ones shortest *)
(* first), so that the first element is the match that re returns.         *)
(***************************************************************************)
Unbounded == -1
MaxGroups == 4

Lit(s) == [t |-> "lit", s |-> s]
Cls(cs) == [t |-> "cls", cs |-> cs, neg |-> FALSE]
NotCls(cs) == [t |-> "cls", cs |-> cs, neg |-> TRUE]
Rep(r, lo, hi) == [t |-> "rep", r |-> r, lo |-> lo, hi |-> hi, lazy |-> FALSE]
RepLazy(r, lo, hi) == [t |-> "rep", r |-> r, lo |-> lo, hi |-> hi, lazy |-> TRUE]
Empty == [t |-> "empty"]
\* a concatenation, kept as a balanced tree of pairs
RECURSIVE Cat(_)
Cat(rs) ==
    IF Len(rs) = 0 THEN Empty
    ELSE IF Len(rs) = 1 THEN rs[1]
    ELSE LET h == Len(rs) \div 2
         IN  [t |-> "cat", a |-> Cat(SubSeq(rs, 1, h)), b |-> Cat(SubSeq(rs, h + 1, Len(rs)))]
Alt(rs) == [t |-> "alt", rs |-> rs]
Grp(n, r) == [t |-> "grp", n |-> n, r |-> r]
Bol(ml) == [t |-> "bol", ml |-> ml]
Eol(ml) == [t |-> "eol", ml |-> ml]
NotAhead(r) == [t |-> "nla", r |-> r]

Star(r) == Rep(r, 0, Unbounded)
Plus(r) == Rep(r, 1, Unbounded)
Opt(r)  == Rep(r, 0, 1)

\* \s  \d  \w  [A-Z0-9] as sets of characters
ReSpace == Whitespace
ReDigit == Digits
ReWord  == UpperLetters \cup LowerLetters \cup Digits \cup {"_"}
ReAZ09  == UpperLetters \cup Digits

\* a function on 1..n as the sequence of its values
Tuple(f) == <<>> \o f

\* one character, lower-cased
Fold(c) == IF c \in UpperLetters THEN CharLower[c] ELSE c

LowerSet(cs) == { Fold(c) : c \in cs }

\* re.IGNORECASE (every pattern of the source has it): the pattern's
\* literals and classes are folded to lower case here, and the matcher
\* folds each character of the text it compares with them
RECURSIVE IgnoreCase(_)
IgnoreCase(re) ==
    CASE re.t = "lit" -> Lit(StrLower(re.s))
      [] re.t = "cls" -> [re EXCEPT !.cs = LowerSet(re.cs)]
      [] re.t = "cat" -> [re EXCEPT !.a = IgnoreCase(re.a), !.b = IgnoreCase(re.b)]
      [] re.t = "alt" -> [re EXCEPT !.rs = Tuple([k \in 1..Len(re.rs) |-> IgnoreCase(re.rs[k])])]
      [] re.t \in {"rep", "grp", "nla"} -> [re EXCEPT !.r = IgnoreCase(re.r)]
      [] OTHER -> re

NoCaps == [n \in 1..MaxGroups |-> <<0, 0>>]

\* the concatenation of a sequence of sequences (halving keeps it shallow)
RECURSIVE Flatten(_)
Flatten(ss) ==
    IF Len(ss) = 0 THEN <<>>
    ELSE IF Len(ss) = 1 THEN ss[1]
    ELSE LET h == Len(ss) \div 2
         IN  Flatten(SubSeq(ss, 1, h)) \o Flatten(SubSeq(ss, h + 1, Len(ss)))

RECURSIVE M(_, _, _, _)
M(re, txt, i, caps) ==
    LET here == <<[end |-> i, caps |-> caps]>>
    IN
    CASE re.t = "lit" ->
            IF i + Len(re.s) - 1 <= Len(txt) /\ StrLower(SubSeq(txt, i, i + Len(re.s) - 1)) = re.s
            THEN <<[end |-> i + Len(re.s), caps |-> caps]>> ELSE <<>>
      [] re.t = "cls" ->
            IF i <= Len(txt) /\ ((Fold(SubSeq(txt, i, i)) \in re.cs) # re.neg)
            THEN <<[end |-> i + 1, caps |-> caps]>> ELSE <<>>
      [] re.t = "empty" -> here
      [] re.t = "cat" ->
            LET left == M(re.a, txt, i, caps)
            IN  Flatten(Tuple([n \in 1..Len(left) |-> M(re.b, txt, left[n].end, left[n].caps)]))
      [] re.t = "alt" -> Flatten(Tuple([n \in 1..Len(re.rs) |-> M(re.rs[n], txt, i, caps)]))
      [] re.t = "rep" /\ re.r.t = "cls" ->
            \* a repeated character class: every count from lo up to the
            \* run of matching characters at i (or hi), longest first
            \* when greedy, shortest first when lazy
            LET Stops(j) == j > Len(txt) \/ (Fold(SubSeq(txt, j, j)) \in re.r.cs) = re.r.neg
                stop == CHOOSE j \in i..(Len(txt) + 1) :
                            Stops(j) /\ \A k \in i..(j - 1) : ~Stops(k)
                run  == stop - i
                most == IF re.hi = Unbounded \/ run < re.hi THEN run ELSE re.hi
            IN  IF most < re.lo THEN <<>>
                ELSE Tuple([n \in 1..(most - re.lo + 1) |->
                        [end  |-> i + (IF re.lazy THEN re.lo + n - 1 ELSE most - n + 1),
                         caps |-> caps]])
      [] re.t = "rep" /\ re.r.t # "cls" ->
            LET again == [re EXCEPT !.lo = IF re.lo > 0 THEN re.lo - 1 ELSE 0,
                                    !.hi = IF re.hi = Unbounded THEN Unbounded ELSE re.hi - 1]
                once == IF re.hi = 0 THEN <<>> ELSE M(re.r, txt, i, caps)
                \* (an iteration that consumed nothing is not repeated)
                more == Flatten(Tuple([n \in 1..Len(once) |->
                                    IF once[n].end = i THEN <<>>
                                    ELSE M(again, txt, once[n].end, once[n].caps)]))
                skip == IF re.lo = 0 THEN here ELSE <<>>
            IN  IF re.lazy THEN skip \o more ELSE more \o skip
      [] re.t = "grp" ->
            LET inner == M(re.r, txt, i, caps)
            IN  Tuple([n \in 1..Len(inner) |->
                    [end |-> inner[n].end,
                     caps |-> [inner[n].caps EXCEPT ![re.n] = <<i, inner[n].end>>]]])
      [] re.t = "bol" ->
            IF i = 1 \/ (re.ml /\ SubSeq(txt, i - 1, i - 1) = "\n") THEN here ELSE <<>>
      [] re.t = "eol" ->
            IF \/ i = Len(txt) + 1
               \/ (re.ml /\ SubSeq(txt, i, i) = "\n")
               \/ (i = Len(txt) /\ SubSeq(txt, i, i) = "\n")
            THEN here ELSE <<>>
      [] re.t = "nla" -> IF Len(M(re.r, txt, i, caps)) = 0 THEN here ELSE <<>>

NoMatch == [ok |-> FALSE]

\* pattern.match(txt, i): the first way the pattern matches from i
ReMatchAt(re, txt, i) ==
    LET First(ms) == IF Len(ms) = 0 THEN NoMatch
                     ELSE [ok |-> TRUE, start |-> i, end |-> ms[1].end, caps |-> ms[1].caps]
    IN  First(M(re, txt, i, NoCaps))

\* whether a match of re can be empty, and whether it can start with the
\* (folded) character c: only such positions need to be tried
RECURSIVE Nullable(_)
Nullable(re) ==
    CASE re.t = "lit" -> re.s = ""
      [] re.t = "cls" -> FALSE
      [] re.t = "cat" -> Nullable(re.a) /\ Nullable(re.b)
      [] re.t = "alt" -> \E k \in 1..Len(re.rs) : Nullable(re.rs[k])
      [] re.t = "rep" -> re.lo = 0 \/ Nullable(re.r)
      [] re.t = "grp" -> Nullable(re.r)
      [] OTHER -> TRUE

RECURSIVE CanStart(_, _)
CanStart(re, c) ==
    CASE re.t = "lit" -> re.s # "" /\ SubSeq(re.s, 1, 1) = c
      [] re.t = "cls" -> (c \in re.cs) # re.neg
      [] re.t = "cat" -> CanStart(re.a, c) \/ (Nullable(re.a) /\ CanStart(re.b, c))
      [] re.t = "alt" -> \E k \in 1..Len(re.rs) : CanStart(re.rs[k], c)
      [] re.t \in {"rep", "grp"} -> CanStart(re.r, c)
      [] OTHER -> FALSE

\* re.search(pattern, txt, re.IGNORECASE): the match at the leftmost
\* position that has one
ReSearch(re, txt) ==
    LET firsts == { c \in LowerSet(CharsOf(txt)) : CanStart(re, c) }
        tries == IF Nullable(re) THEN 1..(Len(txt) + 1)
                 ELSE { i \in 1..Len(txt) : Fold(SubSeq(txt, i, i)) \in firsts }
        Leftmost(hits) == IF hits = {} THEN NoMatch ELSE ReMatchAt(re, txt, Min(hits))
    IN  Leftmost({ i \in tries : ReMatchAt(re, txt, i).ok })

\* match.group(n), taken from the text as written (s), not the folded one
Group(s, m, n) == SubSeq(s, m.caps[n][1], m.caps[n][2] - 1)

(***************************************************************************)
(* State                                                                   *)
(***************************************************************************)
VARIABLES
    padYear,    \* the platform's strftime("%Y") zero-pads years below 1000
                \* (it does not with glibc, it does on Windows and macOS)
    files,      \* process_invoices: the uploaded list
    idx,        \* process_invoices: position of the `for file in files` loop
    results,    \* process_invoices: results
    errors,     \* process_invoices: errors
    tmp_path,   \* process_invoices: the local tmp_path (None while unbound)
    tmpFiles,   \* the temporary files that exist on disk
    response,   \* what process_invoices returned (None before it returns)
    calls,      \* the detect / parse calls made so far, with their results
    arg,        \* a call of one of the pure functions: its name and input
    pc,         \* "call" before that call is made, "return" after
    ret         \* the value the call returned

vars == <<padYear, files, idx, results, errors, tmp_path, tmpFiles, response,
          calls, arg, pc, ret>>

(***************************************************************************)
(* datetime.strptime / strftime                                            *)
(***************************************************************************)
MonthAbbr == <<"jan", "feb", "mar", "apr", "may", "jun",
               "jul", "aug", "sep", "oct", "nov", "dec">>
MonthFull == <<"january", "february", "march", "april", "may", "june",
               "july", "august", "september", "october", "november", "december">>
\* _strptime orders the names of a directive by decreasing length
MonthFullByLen == <<"september", "february", "november", "december", "january",
                    "october", "august", "march", "april", "june", "july", "may">>

D09 == Cls(Digits)
D19 == Cls(Digits \ {"0"})

\* the regular expression _strptime builds for a directive; the day is
\* group 1, the month group 2, the year group 3
DirectiveRe(d) ==
    CASE d = "d" -> Grp(1, Alt(<<Cat(<<Lit("3"), Cls({"0", "1"})>>),
                                 Cat(<<Cls({"1", "2"}), D09>>),
                                 Cat(<<Lit("0"), D19>>),
                                 D19,
                                 Cat(<<Lit(" "), D19>>)>>))
      [] d = "m" -> Grp(2, Alt(<<Cat(<<Lit("1"), Cls({"0", "1", "2"})>>),
                                 Cat(<<Lit("0"), D19>>),
                                 D19>>))
      [] d = "Y" -> Grp(3, Cat(<<D09, D09, D09, D09>>))
      [] d = "b" -> Grp(2, Alt(Tuple([k \in 1..12 |-> Lit(MonthAbbr[k])])))
      [] d = "B" -> Grp(2, Alt(Tuple([k \in 1..12 |-> Lit(MonthFullByLen[k])])))

RECURSIVE FormatRe(_)
FormatRe(fmt) ==
    IF fmt = "" THEN <<>>
    ELSE IF Head(fmt) = "%" THEN <<DirectiveRe(SubSeq(fmt, 2, 2))>> \o FormatRe(SubSeq(fmt, 3, Len(fmt)))
    ELSE <<Lit(Head(fmt))>> \o FormatRe(Tail(fmt))

RECURSIVE StrToInt(_)
StrToInt(s) ==
    IF s = "" THEN 0
    ELSE LET c == SubSeq(s, Len(s), Len(s))
             v == IF c \in Digits THEN (CHOOSE k \in 0..9 : SubSeq(DigitChars, k + 1, k + 1) = c) ELSE 0
         IN  10 * StrToInt(SubSeq(s, 1, Len(s) - 1)) + v

IsLeap(y) == (y % 4 = 0 /\ y % 100 # 0) \/ y % 400 = 0

DaysInMonth(y, m) ==
    IF m = 2 THEN (IF IsLeap(y) THEN 29 ELSE 28)
    ELSE IF m \in {4, 6, 9, 11} THEN 30 ELSE 31

\* a constructor that takes any day up to 31 in any month
ValidDateAnyMonth(y, m, d) == y >= 1 /\ y <= 9999 /\ m \in 1..12 /\ d >= 1 /\ d <= 31

\* the date(year, month, day) constructor accepts it
ValidDate(y, m, d) == y >= 1 /\ y <= 9999 /\ m \in 1..12 /\ d >= 1 /\ d <= DaysInMonth(y, m)

NoDate == [ok |-> FALSE]

\* datetime.strptime(s, fmt); NoDate stands for the ValueError it raises
Strptime(s, fmt) ==
    LET MonthNo(ms) == IF \E k \in 1..12 : MonthAbbr[k] = ms
                       THEN CHOOSE k \in 1..12 : MonthAbbr[k] = ms
                       ELSE IF \E k \in 1..12 : MonthFull[k] = ms
                       THEN CHOOSE k \in 1..12 : MonthFull[k] = ms
                       ELSE StrToInt(ms)
        Date(yr, mo, dy) == IF ValidDate(yr, mo, dy)
                            THEN [ok |-> TRUE, y |-> yr, m |-> mo, d |-> dy]
                            ELSE NoDate
        Found(m) == IF ~m.ok \/ m.end # Len(s) + 1 THEN NoDate
                    ELSE Date(StrToInt(Group(s, m, 3)),
                              MonthNo(StrLower(Group(s, m, 2))),
                              StrToInt(Group(s, m, 1)))
    IN  Found(ReMatchAt(Cat(FormatRe(fmt)), s, 1))

Pad2(n) == IF n < 10 THEN "0" \o ToString(n) ELSE ToString(n)
Pad4(n) == IF n < 10 THEN "000" \o ToString(n)
           ELSE IF n < 100 THEN "00" \o ToString(n)
           ELSE IF n < 1000 THEN "0" \o ToString(n) ELSE ToString(n)

\* a strftime that would write the month before the day
StrftimeMDY(dt) ==
    Pad2(dt.m) \o "/" \o Pad2(dt.d) \o "/" \o (IF padYear THEN Pad4(dt.y) ELSE ToString(dt.y))

\* dt.strftime("%d/%m/%Y")
StrftimeDMY(dt) ==
    Pad2(dt.d) \o "/" \o Pad2(dt.m) \o "/" \o (IF padYear THEN Pad4(dt.y) ELSE ToString(dt.y))

(***************************************************************************)
(* BaseParser: dates and periods                                           *)
(***************************************************************************)
DateFormats == <<"%d.%m.%Y", "%d-%m-%Y", "%d/%m/%Y", "%d-%b-%Y", "%d-%B-%Y", "%Y-%m-%d">>

\* the formats under which the (stripped) string parses
ParsingFormats(date_str) ==
    { k \in 1..Len(DateFormats) : Strptime(Strip(date_str), DateFormats[k]).ok }

\* a fallback that would trim the text it returns
format_date_trimmed(date_str) ==
    IF ~Truthy(date_str) THEN ""
    ELSE LET First(fs) == IF fs # {}
                          THEN StrftimeDMY(Strptime(Strip(date_str), DateFormats[Min(fs)]))
                          ELSE Replace(Strip(date_str), ".", "/")
         IN  First(ParsingFormats(date_str))

format_date(date_str) ==
    IF ~Truthy(date_str) THEN ""
    ELSE LET First(fs) == IF fs # {}
                          THEN StrftimeDMY(Strptime(Strip(date_str), DateFormats[Min(fs)]))
                          ELSE Replace(date_str, ".", "/")
         IN  First(ParsingFormats(date_str))

\* the separators with the bare hyphen tried first
SeparatorsHyphenFirst == <<"-", " - ", " to ", EnDash>>

Separators == <<" - ", " to ", "-", EnDash>>

\* years * 12 + months and days of dateutil's relativedelta(end, start):
\* the whole months from start to end, found by stepping the month count
\* back (or forward, for end < start) while start + months overshoots end,
\* the day of start + months being clipped to the length of its month
DateLess(a, b) == \/ a.y < b.y
                  \/ a.y = b.y /\ a.m < b.m
                  \/ a.y = b.y /\ a.m = b.m /\ a.d < b.d

AddMonths(dt, months) ==
    LET s    == IF months < 0 THEN -1 ELSE 1
        yrs  == IF months * s > 11 THEN s * ((months * s) \div 12) ELSE 0
        mos  == IF months * s > 11 THEN s * ((months * s) % 12) ELSE months
        m0   == dt.m + mos
        year == dt.y + yrs + (IF m0 > 12 THEN 1 ELSE IF m0 < 1 THEN -1 ELSE 0)
        mon  == IF m0 > 12 THEN m0 - 12 ELSE IF m0 < 1 THEN m0 + 12 ELSE m0
        day  == IF dt.d < DaysInMonth(year, mon) THEN dt.d ELSE DaysInMonth(year, mon)
    IN  [ok |-> TRUE, y |-> year, m |-> mon, d |-> day]

DaysBeforeYear(y) == (y - 1) * 365 + (y - 1) \div 4 - (y - 1) \div 100 + (y - 1) \div 400

RECURSIVE DaysBeforeMonth(_, _)
DaysBeforeMonth(y, m) == IF m = 1 THEN 0 ELSE DaysBeforeMonth(y, m - 1) + DaysInMonth(y, m - 1)

\* date.toordinal()
Ordinal(dt) == DaysBeforeYear(dt.y) + DaysBeforeMonth(dt.y, dt.m) + dt.d

relativedelta(dt1, dt2) ==
    LET months0 == (dt1.y - dt2.y) * 12 + (dt1.m - dt2.m)
        dtm0    == AddMonths(dt2, months0)
        months  == IF DateLess(dt1, dt2)
                   THEN (IF DateLess(dtm0, dt1) THEN months0 + 1 ELSE months0)
                   ELSE (IF DateLess(dt1, dtm0) THEN months0 - 1 ELSE months0)
        dtm     == AddMonths(dt2, months)
    IN  [total_months |-> months, days |-> Ordinal(dt1) - Ordinal(dtm)]

\* the label of a month count
FrequencyLabel(total_months) ==
    IF total_months <= 1 THEN "Monthly"
    ELSE IF total_months <= 3 THEN "Quarterly"
    ELSE IF total_months <= 6 THEN "Half-Yearly"
    ELSE IF total_months <= 12 THEN "Yearly"
    ELSE ToString(total_months) \o " Months"

\* a frequency that leaves out the month added for the inclusive period
calculate_billing_frequency_exclusive(from_date, to_date) ==
    IF ~Truthy(from_date) \/ ~Truthy(to_date) THEN ""
    ELSE LET Between(start, end) == IF ~start.ok \/ ~end.ok THEN ""
                                    ELSE FrequencyLabel(relativedelta(end, start).total_months)
         IN  Between(Strptime(from_date, "%d/%m/%Y"), Strptime(to_date, "%d/%m/%Y"))

\* a frequency that adds the month also when no day is left over
calculate_billing_frequency_no_remainder(from_date, to_date) ==
    IF ~Truthy(from_date) \/ ~Truthy(to_date) THEN ""
    ELSE LET Months(rdelta) == rdelta.total_months + (IF rdelta.days >= 0 THEN 1 ELSE 0)
             Between(start, end) == IF ~start.ok \/ ~end.ok THEN ""
                                    ELSE FrequencyLabel(Months(relativedelta(end, start)))
         IN  Between(Strptime(from_date, "%d/%m/%Y"), Strptime(to_date, "%d/%m/%Y"))

\* a frequency that goes by the length of the period, whichever date is first
calculate_billing_frequency_absolute(from_date, to_date) ==
    IF ~Truthy(from_date) \/ ~Truthy(to_date) THEN ""
    ELSE LET Size(n) == IF n < 0 THEN -n ELSE n
             Months(rdelta) == Size(rdelta.total_months) + (IF Size(rdelta.days) > 0 THEN 1 ELSE 0)
             Between(start, end) == IF ~start.ok \/ ~end.ok THEN ""
                                    ELSE FrequencyLabel(Months(relativedelta(end, start)))
         IN  Between(Strptime(from_date, "%d/%m/%Y"), Strptime(to_date, "%d/%m/%Y"))

calculate_billing_frequency(from_date, to_date) ==
    IF ~Truthy(from_date) \/ ~Truthy(to_date) THEN ""
    ELSE LET Label(total_months) ==
                 IF total_months <= 1 THEN "Monthly"
                 ELSE IF total_months <= 3 THEN "Quarterly"
                 ELSE IF total_months <= 6 THEN "Half-Yearly"
                 ELSE IF total_months <= 12 THEN "Yearly"
                 ELSE ToString(total_months) \o " Months"
             Months(rdelta) == rdelta.total_months + (IF rdelta.days > 0 THEN 1 ELSE 0)
             Between(start, end) == IF ~start.ok \/ ~end.ok THEN ""
                                    ELSE Label(Months(relativedelta(end, start)))
         IN  Between(Strptime(from_date, "%d/%m/%Y"), Strptime(to_date, "%d/%m/%Y"))

parse_invoice_period(period_str) ==
    IF ~Truthy(period_str) THEN <<"", "", "">>
    ELSE LET Period(from_date, to_date) ==
                 <<from_date, to_date, calculate_billing_frequency(from_date, to_date)>>
             Sides(parts) == Period(format_date(Strip(parts[1])), format_date(Strip(parts[2])))
             SplitAt(found) == IF found = {} THEN Period("", "")
                               ELSE Sides(Split1(period_str, Separators[Min(found)]))
         IN  SplitAt({ k \in 1..Len(Separators) : Contains(period_str, Separators[k]) })

MonthAbbrCap == <<"Jan", "Feb", "Mar", "Apr", "May", "Jun",
                  "Jul", "Aug", "Sep", "Oct", "Nov", "Dec">>

\* the month with the year in four digits
StrftimeMonYYYY(dt) == MonthAbbrCap[dt.m] \o "-" \o ToString(dt.y)

\* dt.strftime("%b-%y")
StrftimeMonYY(dt) == MonthAbbrCap[dt.m] \o "-" \o Pad2(dt.y % 100)

DefaultLedger == "Bulk SMS Charges"

\* a ledger name that goes by the start of the period alone
generate_ledger_name_by_start(period_from, period_to) ==
    IF ~Truthy(period_from) THEN DefaultLedger
    ELSE LET Named(start, end) ==
                 IF ~start.ok THEN DefaultLedger
                 ELSE DefaultLedger \o " - " \o StrftimeMonYY(start) \o " to "
                      \o StrftimeMonYY(IF end.ok THEN end ELSE start)
         IN  Named(Strptime(period_from, "%d/%m/%Y"), Strptime(period_to, "%d/%m/%Y"))

generate_ledger_name(period_from, period_to) ==
    IF ~Truthy(period_from) \/ ~Truthy(period_to) THEN DefaultLedger
    ELSE LET Named(start, end) ==
                 IF ~start.ok \/ ~end.ok THEN DefaultLedger
                 ELSE DefaultLedger \o " - " \o StrftimeMonYY(start) \o " to " \o StrftimeMonYY(end)
         IN  Named(Strptime(period_from, "%d/%m/%Y"), Strptime(period_to, "%d/%m/%Y"))

(***************************************************************************)
(* BaseParser: state codes, fields, amounts                                *)
(***************************************************************************)
GST_STATE_CODES ==
    ("01" :> "Jammu & Kashmir") @@ ("02" :> "Himachal Pradesh") @@ ("03" :> "Punjab") @@
    ("04" :> "Chandigarh") @@ ("05" :> "Uttarakhand") @@ ("06" :> "Haryana") @@
    ("07" :> "Delhi") @@ ("08" :> "Rajasthan") @@ ("09" :> "Uttar Pradesh") @@
    ("10" :> "Bihar") @@ ("11" :> "Sikkim") @@ ("12" :> "Arunachal Pradesh") @@
    ("13" :> "Nagaland") @@ ("14" :> "Manipur") @@ ("15" :> "Mizoram") @@
    ("16" :> "Tripura") @@ ("17" :> "Meghalaya") @@ ("18" :> "Assam") @@
    ("19" :> "West Bengal") @@ ("20" :> "Jharkhand") @@ ("21" :> "Odisha") @@
    ("22" :> "Chhattisgarh") @@ ("23" :> "Madhya Pradesh") @@ ("24" :> "Gujarat") @@
    ("25" :> "Daman & Diu") @@ ("26" :> "Dadra & Nagar Haveli") @@ ("27" :> "Maharashtra") @@
    ("28" :> "Andhra Pradesh") @@ ("29" :> "Karnataka") @@ ("30" :> "Goa") @@
    ("31" :> "Lakshadweep") @@ ("32" :> "Kerala") @@ ("33" :> "Tamil Nadu") @@
    ("34" :> "Puducherry") @@ ("35" :> "Andaman & Nicobar Islands") @@ ("36" :> "Telangana") @@
    ("37" :> "Andhra Pradesh (New)") @@ ("38" :> "Ladakh")

\* a lookup of the whole number instead of its first two characters
get_state_from_gst_whole(gst_number) ==
    IF ~Truthy(gst_number) \/ Len(gst_number) < 2 THEN ""
    ELSE IF gst_number \in DOMAIN GST_STATE_CODES THEN GST_STATE_CODES[gst_number] ELSE ""

get_state_from_gst(gst_number) ==
    IF ~Truthy(gst_number) \/ Len(gst_number) < 2 THEN ""
    ELSE LET state_code == SubSeq(gst_number, 1, 2)
         IN  IF state_code \in DOMAIN GST_STATE_CODES THEN GST_STATE_CODES[state_code] ELSE ""

\* re.search(pattern, text, IGNORECASE | MULTILINE | DOTALL); the pattern
\* is given already folded (IgnoreCase) and with multi-line anchors
\* match.group(group): None for a group that took no part in the match
MatchGroup(s, m, group) == IF m.caps[group] = <<0, 0>> THEN None ELSE Group(s, m, group)

\* an extract_field that takes the last match of the pattern in the text
extract_field_last(text, pattern, group) ==
    LET Field(match) == IF match.ok THEN Strip(MatchGroup(text, match, group)) ELSE None
        Rightmost(hits) == IF hits = {} THEN NoMatch ELSE ReMatchAt(pattern, text, Max(hits))
    IN  Field(Rightmost({ i \in 1..Len(text) : ReMatchAt(pattern, text, i).ok }))

extract_field(text, pattern, group) ==
    LET Field(match) == IF match.ok THEN Strip(MatchGroup(text, match, group)) ELSE None
    IN  Field(ReSearch(pattern, text))

\* a clean_amount without its `if value` guard
clean_amount_unguarded(value) == Replace(value, ",", "")

\* a clean_amount that takes out the first comma only
clean_amount_first_comma(value) ==
    LET Joined(parts) == IF Len(parts) = 2 THEN parts[1] \o parts[2] ELSE value
    IN  IF Truthy(value) THEN Joined(Split1(value, ",")) ELSE ""

clean_amount(value) == IF Truthy(value) THEN Replace(value, ",", "") ELSE ""

(***************************************************************************)
(* services/invoice_detector.py                                            *)
(***************************************************************************)
\* a detector that would look for the last template first
detect_jtl_first(text) ==
    LET text_upper == StrUpper(text)
    IN  IF Contains(text_upper, "JIO THINGS LIMITED")
        THEN "jtl"
        ELSE IF Contains(text_upper, "RELIANCE JIO INFOCOMM LIMITED")
                /\ Contains(text_upper, "ORIGINAL FOR RECIPIENT")
        THEN "rjil"
        ELSE IF Contains(text_upper, "TAX INVOICE (ORIGINAL)") /\ Contains(text_upper, "ACCOUNT NUMBER")
        THEN "cloudxp"
        ELSE "unknown"

detect_invoice_type(text) ==
    LET text_upper == StrUpper(text)
    IN  IF Contains(text_upper, "TAX INVOICE (ORIGINAL)") /\ Contains(text_upper, "ACCOUNT NUMBER")
        THEN "cloudxp"
        ELSE IF Contains(text_upper, "RELIANCE JIO INFOCOMM LIMITED")
                /\ Contains(text_upper, "ORIGINAL FOR RECIPIENT")
        THEN "rjil"
        ELSE IF Contains(text_upper, "JIO THINGS LIMITED")
        THEN "jtl"
        ELSE "unknown"

(***************************************************************************)
(* The extractors' patterns                                                *)
(***************************************************************************)
S0 == Star(Cls(ReSpace))                          \* \s*
S1 == Plus(Cls(ReSpace))                          \* \s+
Colon == Opt(Lit(":"))                            \* :?
Dn(lo, hi) == Rep(Cls(ReDigit), lo, hi)           \* \d{lo,hi}
DotSlash == Cls({".", "/"})                       \* [./]
DashDotSlash == Cls({"-", ".", "/"})              \* [-./]
\* [\d,]+\.?\d*
Amount == Cat(<<Plus(Cls(Digits \cup {","})), Opt(Lit(".")), Star(Cls(ReDigit))>>)
\* [Rr]emarks?\s*:?\s*([^\n]+)
RemarksRe == IgnoreCase(Cat(<<Cls({"R", "r"}), Lit("emark"), Opt(Lit("s")), S0, Colon, S0,
                              Grp(1, Plus(NotCls({"\n"})))>>))
\* ^Bulk\s*SMS\s*Service\s*[-:]\s*
RemarksPrefixRe == IgnoreCase(Cat(<<Bol(FALSE), Lit("Bulk"), S0, Lit("SMS"), S0, Lit("Service"), S0,
                                    Cls({"-", ":"}), S0>>))
\* \d{1,2}[-./]\w{3}[-./]\d{4}|\d{1,2}[-./]\d{1,2}[-./]\d{4}
CX_Date == Alt(<<Cat(<<Dn(1, 2), DashDotSlash, Rep(Cls(ReWord), 3, 3), DashDotSlash, Dn(4, 4)>>),
                 Cat(<<Dn(1, 2), DashDotSlash, Dn(1, 2), DashDotSlash, Dn(4, 4)>>)>>)
\* \d{1,2}[-./]\w{3,}[-./]\d{4}
CX_PeriodDate == Cat(<<Dn(1, 2), DashDotSlash, Rep(Cls(ReWord), 3, Unbounded), DashDotSlash, Dn(4, 4)>>)
\* \d{1,2}[./]\d{1,2}[./]\d{4}
NumDate == Cat(<<Dn(1, 2), DotSlash, Dn(1, 2), DotSlash, Dn(4, 4)>>)
\* (?:SMS\s+Service|Bulk\s+SMS)\s+(\d+)\s+([\d,]+\.?\d*)\s+([\d.]+)\s+([\d,]+\.?\d*)
CX_LineItem == Cat(<<Alt(<<Cat(<<Lit("SMS"), S1, Lit("Service")>>), Cat(<<Lit("Bulk"), S1, Lit("SMS")>>)>>),
                     S1, Grp(1, Plus(Cls(ReDigit))), S1, Grp(2, Amount), S1,
                     Grp(3, Plus(Cls(Digits \cup {"."}))), S1, Grp(4, Amount)>>)
\* \s+(\d+)\s+([\d,]+\.?\d*)\s+([\d.]+)\s+([\d,]+\.?\d*)
JTL_LineItem == Cat(<<S1, Grp(1, Plus(Cls(ReDigit))), S1, Grp(2, Amount), S1,
                      Grp(3, Plus(Cls(Digits \cup {"."}))), S1, Grp(4, Amount)>>)

CX_InvoiceNumber == IgnoreCase(Cat(<<Lit("Invoice"), S0, Lit("Number"), S0, Colon, S0,
                                     Grp(1, Plus(Cls(ReAZ09)))>>))
CX_InvoiceDate == IgnoreCase(Cat(<<Lit("Invoice"), S0, Lit("Date"), S0, Colon, S0, Grp(1, CX_Date)>>))
CX_GstRegistration == IgnoreCase(Cat(<<Lit("GST"), S0, Lit("Registration"), S0, Lit("Number"), S0,
                                       Colon, S0, Grp(1, Plus(Cls(ReAZ09)))>>))
CX_BilledTo == IgnoreCase(Cat(<<Lit("Billed"), S0, Lit("To"), S0, Colon, S0,
                                Grp(1, Plus(NotCls({"\n"})))>>))
\* PO\s*Number\s*:?\s*([A-Z0-9/\s]+?)(?:\s*PO\s*Date|\s*\n|$)
CX_PoNumber == IgnoreCase(Cat(<<Lit("PO"), S0, Lit("Number"), S0, Colon, S0,
                                Grp(1, RepLazy(Cls(ReAZ09 \cup {"/"} \cup ReSpace), 1, Unbounded)),
                                Alt(<<Cat(<<S0, Lit("PO"), S0, Lit("Date")>>),
                                      Cat(<<S0, Lit("\n")>>),
                                      Eol(TRUE)>>)>>))
CX_PoDate == IgnoreCase(Cat(<<Lit("PO"), S0, Lit("Date"), S0, Colon, S0, Grp(1, CX_Date)>>))
CX_InvoicePeriod == IgnoreCase(Cat(<<Lit("Invoice"), S0, Lit("Period"), S0, Colon, S0,
                                     Grp(1, Cat(<<CX_PeriodDate, S0, Alt(<<Lit("to"), Lit("-")>>), S0,
                                                  CX_PeriodDate>>))>>))
CX_Delivered == IgnoreCase(Cat(<<Lit("Delivered"), S1, Lit("Segment"), S1, Lit("Charge"), Opt(Lit("s")),
                                 S0, Lit("\n"), S0, Plus(Cls(ReDigit)), S1, CX_LineItem>>))
CX_Submitted == IgnoreCase(Cat(<<Lit("Submitted"), S1, Lit("Segment"), S1, Lit("DLT"),
                                 S0, Lit("\n"), S0, Plus(Cls(ReDigit)), S1, CX_LineItem>>))
CX_TotalAmount == IgnoreCase(Cat(<<Lit("Total"), S0, Lit("Amount"), S0, Colon, S0, Grp(1, Amount)>>))
CX_TotalAmount2 == IgnoreCase(Cat(<<Lit("Total"), S0, Lit("Amount"), S1, Amount, S1, Grp(1, Amount)>>))
\* CGST\s*@?\s*\d+%?\s+([\d,]+\.?\d*)
CX_Tax(name) == IgnoreCase(Cat(<<Lit(name), S0, Opt(Lit("@")), S0, Plus(Cls(ReDigit)), Opt(Lit("%")),
                                 S1, Grp(1, Amount)>>))
CX_Cgst == CX_Tax("CGST")
CX_Sgst == CX_Tax("SGST")
CX_GrandTotal == IgnoreCase(Cat(<<Lit("Grand"), S0, Lit("Total"), S0, Opt(Lit("(")), S0, Lit("Including"),
                                  S0, Lit("Tax"), S0, Opt(Lit(")")), S0, Colon, S0, Grp(1, Amount)>>))

RJ_InvoiceNo == IgnoreCase(Cat(<<Lit("Invoice"), S0, Lit("no"), Opt(Lit(".")), S0, Colon, S0,
                                 Grp(1, Plus(Cls(ReDigit)))>>))
RJ_InvoiceDate == IgnoreCase(Cat(<<Lit("Invoice"), S0, Lit("date"), S0, Colon, S0, Grp(1, NumDate)>>))
\* GSTIN\s+([A-Z0-9]{15})
GstinRe == IgnoreCase(Cat(<<Lit("GSTIN"), S1, Grp(1, Rep(Cls(ReAZ09), 15, 15))>>))
\* Recipient\s+([A-Z][A-Z0-9\s]+)
RJ_RecipientLine == IgnoreCase(Cat(<<Lit("Recipient"), S1,
                                     Grp(1, Cat(<<Cls(UpperLetters), Plus(Cls(ReAZ09 \cup ReSpace))>>))>>))
\* Recipient\s+([A-Z][A-Z0-9\s]+(?:LIMITED|LTD))
RJ_RecipientLimited == IgnoreCase(Cat(<<Lit("Recipient"), S1,
                                        Grp(1, Cat(<<Cls(UpperLetters), Plus(Cls(ReAZ09 \cup ReSpace)),
                                                     Alt(<<Lit("LIMITED"), Lit("LTD")>>)>>))>>))
RJ_PoNo == IgnoreCase(Cat(<<Lit("PO"), S0, Lit("No"), S0, Opt(Lit(".")), S0, Colon, S0,
                            Grp(1, Plus(Cls(ReAZ09)))>>))
RJ_PoDate == IgnoreCase(Cat(<<Lit("PO"), S0, Lit("Date"), Opt(Lit(".")), S0, Colon, S0, Grp(1, NumDate)>>))
\* the class between the two dates is written in the source as "-" and
\* the three characters of a wrongly decoded en dash (none of them the
\* en dash itself); of the ASCII characters only "-" belongs to it
RJ_InvoicePeriod == IgnoreCase(Cat(<<Lit("Invoice"), S0, Lit("period"), S0, Colon, S0,
                                     Grp(1, Cat(<<NumDate, S0, Cls({"-"}), S0, NumDate>>))>>))
\* BULK\s*SMS\s+(\d+)\s+([\d,]+)\s+EA\s+([\d.]+)\s+([\d,]+\.?\d*)
RJ_BulkSms == IgnoreCase(Cat(<<Lit("BULK"), S0, Lit("SMS"), S1, Grp(1, Plus(Cls(ReDigit))), S1,
                               Grp(2, Plus(Cls(Digits \cup {","}))), S1, Lit("EA"), S1,
                               Grp(3, Plus(Cls(Digits \cup {"."}))), S1, Grp(4, Amount)>>))
RJ_Amount == IgnoreCase(Cat(<<Lit("Total"), S0, Lit("Amount"), S0, Lit("Excluding"), S0, Lit("Taxes"), S0,
                              Grp(1, Amount)>>))
\* CGST\s+[\d.]+\s*%?\s*([\d,]+\.?\d*)
RJ_Tax(name) == IgnoreCase(Cat(<<Lit(name), S1, Plus(Cls(Digits \cup {"."})), S0, Opt(Lit("%")), S0,
                                 Grp(1, Amount)>>))
RJ_Cgst == RJ_Tax("CGST")
RJ_Sgst == RJ_Tax("SGST")
RJ_GrandTotal == IgnoreCase(Cat(<<Lit("Grand"), S0, Lit("Total"), S0, Opt(Lit("(")), S0, Lit("Including"),
                                  S0, Lit("GST"), S0, Opt(Lit(")")), S0, Grp(1, Amount)>>))

JT_InvoiceNo == IgnoreCase(Cat(<<Lit("Invoice"), S0, Lit("No"), Opt(Lit(".")), S0, Colon, S0,
                                 Grp(1, Plus(Cls(ReAZ09)))>>))
JT_Date == IgnoreCase(Cat(<<Lit("Date"), S0, Colon, S0, Grp(1, NumDate)>>))
JT_NameChars == ReAZ09 \cup ReSpace \cup {"&", "-", "."}
\* Recipient\s+(?!No)([A-Z][A-Z0-9\s&\-\.]+?)(?:\s+Date|\s+\d{1,2}[./]|\s+Invoice|\s*\n|\s+6-A|$)
JT_Recipient == IgnoreCase(Cat(<<Lit("Recipient"), S1, NotAhead(Lit("No")),
                                 Grp(1, Cat(<<Cls(UpperLetters), RepLazy(Cls(JT_NameChars), 1, Unbounded)>>)),
                                 Alt(<<Cat(<<S1, Lit("Date")>>),
                                       Cat(<<S1, Dn(1, 2), DotSlash>>),
                                       Cat(<<S1, Lit("Invoice")>>),
                                       Cat(<<S0, Lit("\n")>>),
                                       Cat(<<S1, Lit("6-A")>>),
                                       Eol(TRUE)>>)>>))
\* ^\s*Recipient\s+(?!No)
JT_RecipientLineStart == IgnoreCase(Cat(<<Bol(FALSE), S0, Lit("Recipient"), S1, NotAhead(Lit("No"))>>))
\* Recipient\s+([A-Z][A-Z0-9\s&\-\.]+)
JT_RecipientLine == IgnoreCase(Cat(<<Lit("Recipient"), S1,
                                     Grp(1, Cat(<<Cls(UpperLetters), Plus(Cls(JT_NameChars))>>))>>))
JT_Orn == IgnoreCase(Cat(<<Lit("ORN"), S0, Colon, S0, Grp(1, Plus(Cls(ReDigit)))>>))
\* here the class is "-" and the en dash
JT_InvoicePeriod == IgnoreCase(Cat(<<Lit("Invoice"), S0, Lit("Period"), S0, Colon, S0,
                                     Grp(1, Cat(<<NumDate, S0, Cls({"-", EnDash}), S0, NumDate>>))>>))
\* (?:SMS\s*#?\s*SCRUBBING|DLT\s*COUNT)\s+...
JT_Dlt == IgnoreCase(Cat(<<Alt(<<Cat(<<Lit("SMS"), S0, Opt(Lit("#")), S0, Lit("SCRUBBING")>>),
                                 Cat(<<Lit("DLT"), S0, Lit("COUNT")>>)>>), JTL_LineItem>>))
JT_Bss == IgnoreCase(Cat(<<Lit("BSS"), S0, Lit("SERVICE"), S0, Lit("CHARGE"), JTL_LineItem>>))
JT_Amount == IgnoreCase(Cat(<<Lit("Total"), S0, Lit("Taxable"), S0, Lit("value"), S0, Grp(1, Amount)>>))
\* CGST\s*@?\s*\d+\s*%?\s*([\d,]+\.?\d*)
JT_Tax(name) == IgnoreCase(Cat(<<Lit(name), S0, Opt(Lit("@")), S0, Plus(Cls(ReDigit)), S0, Opt(Lit("%")),
                                 S0, Grp(1, Amount)>>))
JT_Cgst == JT_Tax("CGST")
JT_Sgst == JT_Tax("SGST")
JT_Total == IgnoreCase(Cat(<<Lit("Total"), S0, Lit("("), S0, Lit("Value"), S0, Lit("is"), S0,
                             Lit("inclusive"), S0, Lit("of"), S0, Lit("Tax"), S0, Lit(")"), S0,
                             Grp(1, Amount)>>))

(***************************************************************************)
(* The extractors.  parse returns [raised, data]: data is the dict the     *)
(* code returns, raised tells that a str method was applied to None on the *)
(* way (the AttributeError then leaves parse instead of the dict).         *)
(***************************************************************************)
\* group 2 of a line item: .replace(",", "").split(".")[0], "" without a match
Quantity(text, match) ==
    IF match.ok THEN Split(Replace(Group(text, match, 2), ",", ""), ".")[1] ELSE ""

\* the column after the rate taken for it
RateOfNextColumn(text, match) == IF match.ok THEN Group(text, match, 4) ELSE ""

\* group 3 of a line item, "" without a match
Rate(text, match) == IF match.ok THEN Group(text, match, 3) ELSE ""

\* self.format_date(raw) if raw else ""
FormatIfAny(raw) == IF Truthy(raw) THEN format_date(raw) ELSE ""

\* a clean-up that leaves the prefix where it is
CleanRemarksKeepingPrefix(remarks) ==
    IF ~Truthy(remarks) THEN remarks ELSE StrUpper(Strip(remarks))

\* re.sub(r'^Bulk\s*SMS\s*Service\s*[-:]\s*', '', remarks, flags=re.IGNORECASE),
\* then .strip().upper()
CleanRemarks(remarks) ==
    IF ~Truthy(remarks) THEN remarks
    ELSE LET Cut(m) == IF m.ok THEN SubSeq(remarks, m.end, Len(remarks)) ELSE remarks
         IN  StrUpper(Strip(Cut(ReMatchAt(RemarksPrefixRe, remarks, 1))))

Result(data) == [raised |-> \E f \in DOMAIN data : data[f] = AttributeError, data |-> data]

CloudXPParser_parse(text) ==
    LET party_customer(billed_to) ==
            IF Truthy(billed_to) THEN Strip(Split(billed_to, "\n")[1]) ELSE billed_to
        order_no(po_number) == IF Truthy(po_number) THEN Strip(po_number) ELSE po_number
        amount(first) == IF ~Truthy(first) THEN extract_field(text, CX_TotalAmount2, 1) ELSE first
        data(gst_registration, period, delivered_match, submitted_match) ==
            [invoice_no |-> OrEmpty(extract_field(text, CX_InvoiceNumber, 1)),
             invoice_date |-> FormatIfAny(extract_field(text, CX_InvoiceDate, 1)),
             gst_registration |-> OrEmpty(gst_registration),
             gst_state |-> get_state_from_gst(gst_registration),
             party_customer |-> OrEmpty(party_customer(extract_field(text, CX_BilledTo, 1))),
             order_no |-> OrEmpty(order_no(extract_field(text, CX_PoNumber, 1))),
             order_date |-> FormatIfAny(extract_field(text, CX_PoDate, 1)),
             invoice_period_from |-> period[1],
             invoice_period_to |-> period[2],
             billing_frequency |-> period[3],
             tds_applicable |-> "Yes",
             gst_tds_applicable |-> "No",
             ledger_name |-> generate_ledger_name(period[1], period[2]),
             submitted_qty |-> Quantity(text, submitted_match),
             submitted_rate |-> Rate(text, submitted_match),
             dlt_qty |-> Quantity(text, submitted_match),
             delivered_qty |-> Quantity(text, delivered_match),
             delivered_rate |-> Rate(text, delivered_match),
             amount |-> clean_amount(amount(extract_field(text, CX_TotalAmount, 1))),
             cgst |-> clean_amount(extract_field(text, CX_Cgst, 1)),
             sgst |-> clean_amount(extract_field(text, CX_Sgst, 1)),
             total_amount |-> clean_amount(extract_field(text, CX_GrandTotal, 1)),
             remarks |-> OrEmpty(CleanRemarks(extract_field(text, RemarksRe, 1)))]
    IN  Result(data(extract_field(text, CX_GstRegistration, 1),
                    parse_invoice_period(extract_field(text, CX_InvoicePeriod, 1)),
                    ReSearch(CX_Delivered, text),
                    ReSearch(CX_Submitted, text)))

NotNames == {"TAX INVOICE", "TAX", "INVOICE"}

\* name.split(',')[0].strip() if ',' in name
BeforeComma(name) == IF Contains(name, ",") THEN Strip(Split(name, ",")[1]) ELSE name

\* the `for line in lines` loop of RJILParser.parse, from line k on
RECURSIVE RJ_ScanLines(_, _)
RJ_ScanLines(lines, k) ==
    LET Named(name) == IF StrUpper(name) \in NotNames THEN RJ_ScanLines(lines, k + 1)
                       ELSE BeforeComma(name)
        Matched(line_stripped, match) ==
            IF ~match.ok THEN RJ_ScanLines(lines, k + 1)
            ELSE Named(Strip(Group(line_stripped, match, 1)))
        Upper(line_stripped, upper) ==
            IF Contains(upper, "FOR RECIPIENT") THEN RJ_ScanLines(lines, k + 1)
            ELSE IF Contains(upper, "TAX INVOICE") /\ Contains(upper, "RECIPIENT")
            THEN RJ_ScanLines(lines, k + 1)
            ELSE IF ~StartsWith(line_stripped, "Recipient") THEN RJ_ScanLines(lines, k + 1)
            ELSE Matched(line_stripped, ReSearch(RJ_RecipientLine, line_stripped))
        Line(line_stripped) == Upper(line_stripped, StrUpper(line_stripped))
    IN  IF k > Len(lines) THEN None ELSE Line(Strip(lines[k]))

RJILParser_parse(text) ==
    LET Other(name, by_line) == IF StrUpper(name) \notin NotNames THEN name ELSE by_line
        Fallback(recipient_match, by_line) ==
            IF recipient_match.ok THEN Other(Strip(Group(text, recipient_match, 1)), by_line)
            ELSE by_line
        party_customer(by_line) ==
            IF ~Truthy(by_line) THEN Fallback(ReSearch(RJ_RecipientLimited, text), by_line)
            ELSE by_line
        delivered_qty(bulk_sms_match) ==
            IF bulk_sms_match.ok THEN Replace(Group(text, bulk_sms_match, 2), ",", "") ELSE ""
        data(gst_registration, period) ==
            [invoice_no |-> OrEmpty(extract_field(text, RJ_InvoiceNo, 1)),
             invoice_date |-> FormatIfAny(extract_field(text, RJ_InvoiceDate, 1)),
             gst_registration |-> OrEmpty(gst_registration),
             gst_state |-> get_state_from_gst(gst_registration),
             party_customer |-> OrEmpty(party_customer(RJ_ScanLines(Split(text, "\n"), 1))),
             order_no |-> OrEmpty(extract_field(text, RJ_PoNo, 1)),
             order_date |-> FormatIfAny(extract_field(text, RJ_PoDate, 1)),
             invoice_period_from |-> period[1],
             invoice_period_to |-> period[2],
             billing_frequency |-> period[3],
             tds_applicable |-> "Yes",
             gst_tds_applicable |-> "No",
             ledger_name |-> generate_ledger_name(period[1], period[2]),
             submitted_qty |-> "",
             submitted_rate |-> "",
             dlt_qty |-> "",
             delivered_qty |-> delivered_qty(ReSearch(RJ_BulkSms, text)),
             delivered_rate |-> "",
             amount |-> clean_amount(extract_field(text, RJ_Amount, 1)),
             cgst |-> clean_amount(extract_field(text, RJ_Cgst, 1)),
             sgst |-> clean_amount(extract_field(text, RJ_Sgst, 1)),
             total_amount |-> clean_amount(extract_field(text, RJ_GrandTotal, 1)),
             remarks |-> OrEmpty(CleanRemarks(extract_field(text, RemarksRe, 1)))]
    IN  Result(data(extract_field(text, GstinRe, 1),
                    parse_invoice_period(extract_field(text, RJ_InvoicePeriod, 1))))

\* the `for line in lines` loop of JTLParser.parse, from line k on
RECURSIVE JT_ScanLines(_, _)
JT_ScanLines(lines, k) ==
    LET Matched(match) == IF ~match.ok THEN JT_ScanLines(lines, k + 1)
                          ELSE BeforeComma(Strip(Group(lines[k], match, 1)))
    IN  IF k > Len(lines) THEN None
        ELSE IF ~ReMatchAt(JT_RecipientLineStart, lines[k], 1).ok THEN JT_ScanLines(lines, k + 1)
        ELSE Matched(ReSearch(JT_RecipientLine, lines[k]))

JTLParser_parse(text) ==
    LET First(recipient_match) ==
            IF recipient_match.ok THEN Strip(Group(text, recipient_match, 1)) ELSE None
        party_customer(first) ==
            IF ~Truthy(first) THEN JT_ScanLines(Split(text, "\n"), 1) ELSE first
        data(gst_registration, period, dlt_match) ==
            [invoice_no |-> OrEmpty(extract_field(text, JT_InvoiceNo, 1)),
             invoice_date |-> FormatIfAny(extract_field(text, JT_Date, 1)),
             gst_registration |-> OrEmpty(gst_registration),
             gst_state |-> get_state_from_gst(gst_registration),
             party_customer |-> OrEmpty(party_customer(First(ReSearch(JT_Recipient, text)))),
             order_no |-> OrEmpty(extract_field(text, JT_Orn, 1)),
             order_date |-> "",
             invoice_period_from |-> period[1],
             invoice_period_to |-> period[2],
             billing_frequency |-> period[3],
             tds_applicable |-> "Yes",
             gst_tds_applicable |-> "No",
             ledger_name |-> generate_ledger_name(period[1], period[2]),
             submitted_qty |-> Quantity(text, dlt_match),
             submitted_rate |-> "",
             dlt_qty |-> Quantity(text, dlt_match),
             delivered_qty |-> Quantity(text, ReSearch(JT_Bss, text)),
             delivered_rate |-> "",
             amount |-> clean_amount(extract_field(text, JT_Amount, 1)),
             cgst |-> clean_amount(extract_field(text, JT_Cgst, 1)),
             sgst |-> clean_amount(extract_field(text, JT_Sgst, 1)),
             total_amount |-> clean_amount(extract_field(text, JT_Total, 1)),
             remarks |-> OrEmpty(CleanRemarks(extract_field(text, RemarksRe, 1)))]
    IN  Result(data(extract_field(text, GstinRe, 1),
                    parse_invoice_period(extract_field(text, JT_InvoicePeriod, 1)),
                    ReSearch(JT_Dlt, text)))

(***************************************************************************)
(* The texts of tests/test_parsers.py, line by line                        *)
(***************************************************************************)
CLOUDXP_SAMPLE_LINES == <<
    "TAX INVOICE (ORIGINAL)", "",
    "Account Number: 123456789",
    "Invoice Number: CXP2025001234",
    "Invoice Date: 15.11.2025",
    "GST Registration Number: 27AABCN1234Q1ZM", "",
    "Billed To: NSE CLEARING LIMITED",
    "Address: C1 Block, Mumbai", "",
    "PO Number: ASL/ 5500546061 PO Date: 10.08.2025",
    "Invoice Period: 01-Nov-2025 to 30-Nov-2025", "",
    "Delivered Segment Charges",
    "1 SMS Service 998599 98,81,102.00 0.090000 8,89,299.18", "",
    "Submitted Segment DLT",
    "2 SMS Service 998599 1,23,94,994.00 0.020000 2,47,899.88",
    "Charges", "",
    "Total Amount: 11,37,199.06", "",
    "CGST @9% 1,02,347.92",
    "SGST @9% 1,02,347.92", "",
    "Grand Total (Including Tax): 13,41,894.90", "",
    "Remarks: Bulk SMS Service - PROMOTIONAL" >>

RJIL_SAMPLE_LINES == <<
    "ORIGINAL FOR RECIPIENT Tax Invoice",
    "Reliance Jio Infocomm Limited", "",
    "Invoice no. 987654321",
    "Invoice date 25.10.2025",
    "GSTIN 27AAGCR1234E1ZR", "",
    "Recipient NSE CLEARING LIMITED, C1 BLOCK G, MUMBAI", "",
    "PO No. 2526NSCCLIT94",
    "PO Date. 01.10.2025",
    "Invoice period 01.10.2025-31.10.2025", "",
    "BULK SMS 998599 5,00,000 EA 0.15 75,000.00", "",
    "Total Amount Excluding Taxes 75,000.00", "",
    "CGST 9.00% 6,750.00",
    "SGST 9.00% 6,750.00", "",
    "Grand Total (Including GST) 88,500.00", "",
    "Remarks: Bulk SMS Service - TRANSACTIONAL" >>

JTL_SAMPLE_LINES == <<
    "Jio Things Limited",
    "TAX INVOICE", "",
    "Invoice No. JTL2025004567",
    "Date: 20.12.2025",
    "GSTIN 27AABCJ5678P1Z5", "",
    "Recipient No    8140817",
    "Recipient       BHARATIYA JANATA PARTY", "",
    "ORN: 77001234",
    "Invoice Period: 01.12.2025-31.12.2025", "",
    "SMS # SCRUBBING 998599 50,000.00 0.020000 1,000.00", "",
    "BSS SERVICE CHARGE 998599 2,50,000.00 0.080000 20,000.00", "",
    "Total Taxable value 21,000.00", "",
    "CGST @9% 1,890.00",
    "SGST @9% 1,890.00", "",
    "Total ( Value is inclusive of Tax ) 24,780.00", "",
    "Remarks: Bulk SMS Service - TRANSACTIONAL" >>

\* a text of the given lines, as the triple-quoted fixtures are written
\* (a newline before the first line and after each line)
RECURSIVE JoinLines(_)
JoinLines(lines) ==
    IF Len(lines) = 0 THEN ""
    ELSE IF Len(lines) = 1 THEN lines[1] \o "\n"
    ELSE LET h == Len(lines) \div 2
         IN  JoinLines(SubSeq(lines, 1, h)) \o JoinLines(SubSeq(lines, h + 1, Len(lines)))

TextOf(lines) == "\n" \o JoinLines(lines)

(***************************************************************************)
(* main.py: uploads                                                        *)
(* An upload is what the handler can observe of a file of the request: its *)
(* name, whether file.read() returns (readError is the message of the      *)
(* exception it raises otherwise), the size and first bytes of its         *)
(* content, whether the temporary copy can be written (diskError), and     *)
(* what pdfplumber makes of it: the text of its pages, or pdfError.        *)
(***************************************************************************)
MaxFiles == 2

PdfUpload(filename, text) ==
    [filename |-> filename, readError |-> None, size |-> 2048, head |-> "%PDF-1.7",
     diskError |-> None, pdfError |-> None, text |-> text]

MAX_FILE_SIZE == 50 * 1024 * 1024
PDF_MAGIC_BYTES == "%PDF"

Uploads == {
    PdfUpload("notes.txt", "minutes of the meeting\n"),
    [PdfUpload("lost.pdf", "") EXCEPT !.readError = "I/O operation on closed file"],
    [PdfUpload("huge.pdf", "") EXCEPT !.size = MAX_FILE_SIZE + 1],
    [PdfUpload("fake.pdf", "") EXCEPT !.head = "PK"],
    [PdfUpload("late.pdf", TextOf(JTL_SAMPLE_LINES))
        EXCEPT !.diskError = "[Errno 28] No space left on device"],
    [PdfUpload("torn.pdf", "") EXCEPT !.pdfError = "No /Root object! - Is this really a PDF?"],
    PdfUpload("scan.pdf", " \n"),
    PdfUpload("memo.pdf", "TAX INVOICE\nJio Platforms Limited\nInvoice No. 12\n"),
    PdfUpload("cloudxp.pdf", TextOf(CLOUDXP_SAMPLE_LINES)),
    PdfUpload("RJIL.PDF", TextOf(RJIL_SAMPLE_LINES)),
    PdfUpload("jtl.pdf", TextOf(JTL_SAMPLE_LINES)) }

EndsWith(s, suffix) ==
    Len(s) >= Len(suffix) /\ SubSeq(s, Len(s) - Len(suffix) + 1, Len(s)) = suffix

\* validate_pdf: the message of the ValueError it raises, None if it returns
validate_pdf(content) ==
    IF content.size > MAX_FILE_SIZE
    THEN "File exceeds maximum size of " \o ToString(MAX_FILE_SIZE \div (1024 * 1024)) \o "MB"
    ELSE IF ~StartsWith(SubSeq(content.head, 1, Min({4, Len(content.head)})), PDF_MAGIC_BYTES)
    THEN "File is not a valid PDF (invalid magic bytes)"
    ELSE None

\* tempfile.NamedTemporaryFile(delete=False, suffix='.pdf').name: a new name
\* at each call
TmpName(k) == "tmp" \o ToString(k) \o ".pdf"

\* extract_text_from_pdf wraps whatever pdfplumber raises
ExtractError(upload) == "Error reading PDF: " \o upload.pdfError

NotPdfError == "Not a PDF file"
EmptyTextError == "Could not extract text from PDF"
\* an unknown type reported in the words of another failure
UnknownAsEmptyText == EmptyTextError
UnknownTypeError == "Could not detect invoice type. Supported: CloudXP, RJIL, JTL"

\* parsers whose instances would keep the remarks of the call before when
\* a text has none
parsers_keeping_remarks(invoice_type, text) ==
    LET Kept(parsed) ==
            IF calls # <<>> /\ calls[Len(calls)].op # "detect" /\ parsed.data.remarks = ""
            THEN [parsed EXCEPT !.data.remarks = calls[Len(calls)].result[1].data.remarks]
            ELSE parsed
    IN  Kept(CASE invoice_type = "cloudxp" -> CloudXPParser_parse(text)
               [] invoice_type = "rjil" -> RJILParser_parse(text)
               [] invoice_type = "jtl" -> JTLParser_parse(text))

\* a dispatch whose Template C extractor reads the order date as the
\* Template B extractor does
parsers_with_po_date(invoice_type, text) ==
    CASE invoice_type = "cloudxp" -> CloudXPParser_parse(text)
      [] invoice_type = "rjil" -> RJILParser_parse(text)
      [] invoice_type = "jtl" ->
            [JTLParser_parse(text) EXCEPT
                !.data.order_date = FormatIfAny(extract_field(text, RJ_PoDate, 1))]

\* a dispatch whose Template B extractor reads the submitted line item as
\* the Template A extractor does
parsers_with_submitted(invoice_type, text) ==
    CASE invoice_type = "cloudxp" -> CloudXPParser_parse(text)
      [] invoice_type = "rjil" ->
            [RJILParser_parse(text) EXCEPT
                !.data.submitted_qty = CloudXPParser_parse(text).data.submitted_qty,
                !.data.submitted_rate = CloudXPParser_parse(text).data.submitted_rate]
      [] invoice_type = "jtl" -> JTLParser_parse(text)

\* a dispatch whose records count the delivered messages as the DLT ones
parsers_dlt_as_delivered(invoice_type, text) ==
    LET Counted(parsed) == [parsed EXCEPT !.data.dlt_qty = parsed.data.delivered_qty]
    IN  Counted(CASE invoice_type = "cloudxp" -> CloudXPParser_parse(text)
                  [] invoice_type = "rjil" -> RJILParser_parse(text)
                  [] invoice_type = "jtl" -> JTLParser_parse(text))

\* parsers[invoice_type].parse(text, filename)
parsers(invoice_type, text) ==
    CASE invoice_type = "cloudxp" -> CloudXPParser_parse(text)
      [] invoice_type = "rjil" -> RJILParser_parse(text)
      [] invoice_type = "jtl" -> JTLParser_parse(text)

\* models.InvoiceData: the fields of the response model and their defaults
InvoiceData ==
    [invoice_no |-> "", invoice_date |-> "", gst_registration |-> "", gst_state |-> "",
     party_customer |-> "", order_no |-> "", order_date |-> "",
     invoice_period_from |-> "", invoice_period_to |-> "", billing_frequency |-> "",
     tds_applicable |-> "Yes", gst_tds_applicable |-> "No", ledger_name |-> "",
     submitted_qty |-> "", submitted_rate |-> "", dlt_qty |-> "", delivered_qty |-> "",
     delivered_rate |-> "", amount |-> "", cgst |-> "", sgst |-> "", total_amount |-> "",
     remarks |-> "", invoice_type |-> "", filename |-> "", product |-> "SMS"]

\* a response model that would pass the dicts on as they are
ValidateAsIs(d) == d

\* validation of one dict of `data` against InvoiceData: the keys it has,
\* the defaults for those it lacks; a None is not a str
Validate(d) == [f \in DOMAIN InvoiceData |-> IF f \in DOMAIN d THEN d[f] ELSE InvoiceData[f]]

\* the response_model=ProcessResponse step of the route
ProcessResponse(content) ==
    IF \E k \in 1..Len(content.data) : \E f \in DOMAIN content.data[k] : content.data[k][f] = None
    THEN [status_code |-> 500, detail |-> "ResponseValidationError"]
    ELSE [status_code |-> 200,
          body |-> [content EXCEPT !.data = Tuple([k \in 1..Len(content.data) |->
                                                        Validate(content.data[k])])]]

(***************************************************************************)
(* main.py: process_invoices, one action for each way an iteration of      *)
(* `for file in files` ends, and one for each way the handler returns      *)
(***************************************************************************)
NoResponse == [status_code |-> 0]

Init ==
    /\ padYear \in BOOLEAN
    /\ \E n \in 0..MaxFiles : files \in [1..n -> Uploads]
    /\ idx = 1
    /\ results = <<>>
    /\ errors = <<>>
    /\ tmp_path = None
    /\ tmpFiles = {}
    /\ response = NoResponse
    /\ calls = <<>>
    /\ arg = None
    /\ pc = "loop"
    /\ ret = None

\* the checks an iteration makes, in their order, before it parses
Stages == <<"name", "read", "validate", "write", "extract", "text", "detect", "parse">>

Passes(file, stage) ==
    CASE stage = "name"     -> EndsWith(StrLower(file.filename), ".pdf")
      [] stage = "read"     -> file.readError = None
      [] stage = "validate" -> validate_pdf(file) = None
      [] stage = "write"    -> file.diskError = None
      [] stage = "extract"  -> file.pdfError = None
      [] stage = "text"     -> Strip(file.text) # ""
      [] stage = "detect"   -> detect_invoice_type(file.text) # "unknown"

\* the iteration for files[idx] passes the checks before `stage` and fails
\* that one (or, for "parse", passes them all)
Reaches(stage) ==
    LET at == CHOOSE k \in 1..Len(Stages) : Stages[k] = stage
    IN  /\ pc = "loop"
        /\ idx <= Len(files)
        /\ \A k \in 1..(at - 1) : Passes(files[idx], Stages[k])
        /\ stage # "parse" => ~Passes(files[idx], stage)

\* an insertion at the head of the list
list_insert_first(list, item) == <<item>> \o list

\* list.append(item)
list_append(list, item) == Append(list, item)

\* a failure that would end the loop instead of the iteration
FailsAndBreaks(error) ==
    /\ errors' = list_append(errors, [filename |-> files[idx].filename, error |-> error])
    /\ idx' = Len(files) + 1
    /\ UNCHANGED <<padYear, files, results, response, arg, pc, ret>>

\* errors.append({"filename": file.filename, "error": error}), then the
\* next iteration
Fails(error) ==
    /\ errors' = list_append(errors, [filename |-> files[idx].filename, error |-> error])
    /\ idx' = idx + 1
    /\ UNCHANGED <<padYear, files, results, response, arg, pc, ret>>

\* `if not files: raise HTTPException(400)`
NoFiles ==
    /\ pc = "loop"
    /\ Len(files) = 0
    /\ response' = [status_code |-> 400, detail |-> "No files uploaded"]
    /\ pc' = "done"
    /\ UNCHANGED <<padYear, files, idx, results, errors, tmp_path, tmpFiles, calls, arg, ret>>

SkipNonPdf ==
    /\ Reaches("name")
    /\ Fails(NotPdfError)
    /\ UNCHANGED <<tmp_path, tmpFiles, calls>>

\* file.read() raises: `except Exception as e`
ReadFails ==
    /\ Reaches("read")
    /\ Fails(files[idx].readError)
    /\ UNCHANGED <<tmp_path, tmpFiles, calls>>

\* validate_pdf raises ValueError
ValidationFails ==
    /\ Reaches("validate")
    /\ Fails(validate_pdf(files[idx]))
    /\ UNCHANGED <<tmp_path, tmpFiles, calls>>

\* the write of the temporary copy raises inside the `with`: the file has
\* been created (delete=False) and the inner try is not entered.  The error
\* comes from tmp.write(content), before tmp_path is assigned, or from the
\* flush when the `with` closes the file, after it
TmpWriteFails ==
    /\ Reaches("write")
    /\ tmpFiles' = tmpFiles \cup {TmpName(idx)}
    /\ tmp_path' \in {tmp_path, TmpName(idx)}
    /\ Fails(files[idx].diskError)
    /\ UNCHANGED calls

\* the `finally` of the inner try: os.unlink(tmp_path) if it exists
Unlink(path, onDisk) == onDisk \ {path}

\* the temporary copy is written and tmp_path assigned, the inner try runs
\* to `outcome` and its `finally` removes the copy
WithTmpFile ==
    /\ tmp_path' = TmpName(idx)
    /\ tmpFiles' = Unlink(TmpName(idx), tmpFiles \cup {TmpName(idx)})

\* extract_text_from_pdf raises
ExtractFails ==
    /\ Reaches("extract")
    /\ WithTmpFile
    /\ Fails(ExtractError(files[idx]))
    /\ UNCHANGED calls

\* `if not text.strip()`
EmptyText ==
    /\ Reaches("text")
    /\ WithTmpFile
    /\ Fails(EmptyTextError)
    /\ UNCHANGED calls

Called(op, text, result) == [op |-> op, text |-> text, result |-> result]

\* `if invoice_type == "unknown"`
UnknownType ==
    /\ Reaches("detect")
    /\ WithTmpFile
    /\ calls' = Append(calls, Called("detect", files[idx].text, <<"unknown">>))
    /\ Fails(UnknownTypeError)

\* parser.parse, then results.append(data); an exception of parse goes to
\* `except Exception as e`
ParseInvoice ==
    /\ Reaches("parse")
    /\ WithTmpFile
    /\ \E invoice_type \in {detect_invoice_type(files[idx].text)} :
       \E parsed \in {parsers(invoice_type, files[idx].text)} :
          /\ calls' = calls \o << Called("detect", files[idx].text, <<invoice_type>>),
                                  Called(invoice_type, files[idx].text, <<parsed>>) >>
          /\ IF parsed.raised
             THEN Fails(AttributeError)
             ELSE /\ results' = list_append(results,
                                            [invoice_type |-> invoice_type,
                                             filename |-> files[idx].filename] @@ parsed.data)
                  /\ idx' = idx + 1
                  /\ UNCHANGED <<padYear, files, errors, response, arg, pc, ret>>

\* the loop is over: the handler returns its dict through ProcessResponse
Return ==
    /\ pc = "loop"
    /\ Len(files) > 0
    /\ idx > Len(files)
    /\ response' = ProcessResponse([success |-> TRUE, processed |-> Len(results),
                                    errors |-> Len(errors), data |-> results,
                                    error_details |-> errors])
    /\ pc' = "done"
    /\ UNCHANGED <<padYear, files, idx, results, errors, tmp_path, tmpFiles, calls, arg, ret>>

Next ==
    \/ NoFiles
    \/ SkipNonPdf
    \/ ReadFails
    \/ ValidationFails
    \/ TmpWriteFails
    \/ ExtractFails
    \/ EmptyText
    \/ UnknownType
    \/ ParseInvoice
    \/ Return

Spec == Init /\ [][Next]_vars

(***************************************************************************)
(* Properties of process_invoices (specification Spec)                     *)
(***************************************************************************)
\* the 23 fields the extractors return
ExtractedFields ==
    {"invoice_no", "invoice_date", "gst_registration", "gst_state", "party_customer",
     "order_no", "order_date", "invoice_period_from", "invoice_period_to",
     "billing_frequency", "tds_applicable", "gst_tds_applicable", "ledger_name",
     "submitted_qty", "submitted_rate", "dlt_qty", "delivered_qty", "delivered_rate",
     "amount", "cgst", "sgst", "total_amount", "remarks"}

AllStrings(record) == \A f \in DOMAIN record : record[f] \notin {None, AttributeError}

Returned == pc = "done" /\ response.status_code = 200

FileNames(list) == Tuple([k \in 1..Len(list) |-> list[k].filename])

\* what each upload of Uploads is expected to yield: the extractor that
\* takes it and the invoice number of its text, or the message of its failure
Accepted ==
    [ x \in {"cloudxp.pdf", "RJIL.PDF", "jtl.pdf"} |->
        CASE x = "cloudxp.pdf" -> [invoice_type |-> "cloudxp", invoice_no |-> "CXP2025001234"]
          [] x = "RJIL.PDF"    -> [invoice_type |-> "rjil", invoice_no |-> "987654321"]
          [] x = "jtl.pdf"     -> [invoice_type |-> "jtl", invoice_no |-> "JTL2025004567"] ]

Rejected ==
    [ x \in {"notes.txt", "lost.pdf", "huge.pdf", "fake.pdf", "late.pdf", "torn.pdf",
             "scan.pdf", "memo.pdf"} |->
        CASE x = "notes.txt" -> "Not a PDF file"
          [] x = "lost.pdf"  -> "I/O operation on closed file"
          [] x = "huge.pdf"  -> "File exceeds maximum size of 50MB"
          [] x = "fake.pdf"  -> "File is not a valid PDF (invalid magic bytes)"
          [] x = "late.pdf"  -> "[Errno 28] No space left on device"
          [] x = "torn.pdf"  -> "Error reading PDF: No /Root object! - Is this really a PDF?"
          [] x = "scan.pdf"  -> "Could not extract text from PDF"
          [] x = "memo.pdf"  -> "Could not detect invoice type. Supported: CloudXP, RJIL, JTL" ]

IsAccepted(name) == name \in DOMAIN Accepted
IsRejected(name) == name \in DOMAIN Rejected

\* C3 (as amended): every record added to results holds the 23 extracted
\* fields plus invoice_type and filename, 25 in all, each a string and none
\* null; product is not among them, it appears, as "SMS", in the records of
\* the response, which hold all 26 fields of InvoiceData as strings.
C3_ResultRecords ==
    /\ \A k \in 1..Len(results) :
          /\ DOMAIN results[k] = ExtractedFields \cup {"invoice_type", "filename"}
          /\ AllStrings(results[k])
    /\ Returned =>
          /\ Len(response.body.data) = Len(results)
          /\ \A k \in 1..Len(results) :
                /\ DOMAIN response.body.data[k]
                      = ExtractedFields \cup {"invoice_type", "filename", "product"}
                /\ AllStrings(response.body.data[k])
                /\ response.body.data[k].product = "SMS"
                /\ \A f \in DOMAIN results[k] : response.body.data[k][f] = results[k][f]

\* C3 as stated: every record added to results holds product as well
C3_AsStated ==
    \A k \in 1..Len(results) :
       /\ DOMAIN results[k] = ExtractedFields \cup {"invoice_type", "filename", "product"}
       /\ AllStrings(results[k])

C3_Witness ==
    /\ Returned
    /\ Len(results) = 2
    /\ results[1].invoice_type = "rjil"
    /\ results[2].invoice_type = "cloudxp"

\* C5: the records of data follow the order of their files in the upload,
\* and so do the entries of error_details: the names in results are the
\* names of the accepted files among those processed, in upload order, the
\* names in errors those of the rejected ones, and the response carries both
\* lists as they are.
C5_SubmissionOrder ==
    /\ pc = "loop" =>
          /\ FileNames(results) = SelectSeq(FileNames(SubSeq(files, 1, idx - 1)), IsAccepted)
          /\ FileNames(errors) = SelectSeq(FileNames(SubSeq(files, 1, idx - 1)), IsRejected)
    /\ Returned =>
          /\ FileNames(response.body.data) = SelectSeq(FileNames(files), IsAccepted)
          /\ FileNames(response.body.error_details) = SelectSeq(FileNames(files), IsRejected)

C5_Witness ==
    /\ Returned
    /\ FileNames(files) = <<"jtl.pdf", "cloudxp.pdf">>
    /\ FileNames(response.body.data) = <<"jtl.pdf", "cloudxp.pdf">>

\* the number of files[1..i] whose name satisfies Test
CountUpTo(i, Test(_)) == Cardinality({ j \in 1..i : Test(files[j].filename) })

\* C6: each file yields exactly one outcome, a record or an error entry, so
\* that processed + errors is the number of files; the outcome of a file is
\* the one its content calls for, whatever the other files of the upload
\* are and however they end.
C6_OneOutcomePerFile ==
    /\ pc = "loop" => Len(results) + Len(errors) = idx - 1
    /\ \A i \in 1..(IF pc = "loop" THEN idx - 1 ELSE Len(files)) :
          IF IsAccepted(files[i].filename)
          THEN LET record == results[CountUpTo(i, IsAccepted)]
               IN  /\ record.filename = files[i].filename
                   /\ record.invoice_type = Accepted[files[i].filename].invoice_type
                   /\ record.invoice_no = Accepted[files[i].filename].invoice_no
          ELSE errors[CountUpTo(i, IsRejected)]
                  = [filename |-> files[i].filename, error |-> Rejected[files[i].filename]]
    /\ pc = "done" /\ Len(files) > 0 =>
          /\ Returned
          /\ response.body.processed = Len(response.body.data)
          /\ response.body.errors = Len(response.body.error_details)
          /\ response.body.processed + response.body.errors = Len(files)

C6_Witness ==
    /\ Returned
    /\ FileNames(files) = <<"torn.pdf", "RJIL.PDF">>
    /\ response.body.processed = 1
    /\ response.body.errors = 1

Phrases ==
    << "Tax Invoice (Original)", "Account Number", "Reliance Jio Infocomm Limited",
       "Original for Recipient", "Jio Things Limited", "Tax Invoice", "Jio Things Ltd" >>

MaxPhrases == 4

Styles == {"printed", "upper", "lower"}

Styled(s, style) ==
    CASE style = "upper" -> StrUpper(s)
      [] style = "lower" -> StrLower(s)
      [] style = "printed" -> s

PhraseText(phrases, style) ==
    JoinLines(Tuple([k \in 1..Len(phrases) |-> Styled(Phrases[phrases[k]], style)]))

Injective(f) == \A i, j \in DOMAIN f : i # j => f[i] # f[j]

\* the variables process_invoices alone uses, at rest
NoBatch ==
    /\ files = <<>>
    /\ idx = 1
    /\ results = <<>>
    /\ errors = <<>>
    /\ tmp_path = None
    /\ tmpFiles = {}
    /\ response = NoResponse

InitDetect ==
    /\ padYear \in BOOLEAN
    /\ NoBatch
    /\ calls = <<>>
    /\ \E n \in 0..MaxPhrases : \E phrases \in [1..n -> 1..Len(Phrases)] : \E style \in Styles :
          /\ Injective(phrases)
          /\ arg = [phrases |-> phrases, style |-> style]
    /\ pc = "call"
    /\ ret = None

Detect ==
    /\ pc = "call"
    /\ ret' = detect_invoice_type(PhraseText(arg.phrases, arg.style))
    /\ pc' = "return"
    /\ UNCHANGED <<padYear, files, idx, results, errors, tmp_path, tmpFiles, response, calls, arg>>

SpecDetect == InitDetect /\ [][Detect]_vars

\* C1: detect_invoice_type returns "cloudxp" exactly when the text holds both
\* "TAX INVOICE (ORIGINAL)" and "ACCOUNT NUMBER"; otherwise "rjil" exactly
\* when it holds both "RELIANCE JIO INFOCOMM LIMITED" and "ORIGINAL FOR
\* RECIPIENT"; otherwise "jtl" exactly when it holds "JIO THINGS LIMITED";
\* otherwise "unknown" (the empty text included).  A text with the markers of
\* several templates gets the earliest of them, and the letter case of the
\* text does not matter.
C1_DetectOrder ==
    pc = "return" =>
        LET Has(k) == \E j \in 1..Len(arg.phrases) : arg.phrases[j] = k
        IN  ret = IF Has(1) /\ Has(2) THEN "cloudxp"
                  ELSE IF Has(3) /\ Has(4) THEN "rjil"
                  ELSE IF Has(5) THEN "jtl"
                  ELSE "unknown"

C1_Witness ==
    /\ pc = "return"
    /\ arg = [phrases |-> <<5, 4, 3, 6>>, style |-> "lower"]
    /\ ret = "rjil"

(***************************************************************************)
(* format_date and parse_invoice_period on their own (specification        *)
(* SpecDate).  A call is made on a calendar date written in one of the six *)
(* formats, on a text that is no date, or on a period made of two sides    *)
(* and what stands between them.                                           *)
(***************************************************************************)
MaxPad == 1

Years == {999, 2024, 2025}
Days == {1, 29, 31}
MonthNames == <<"January", "February", "March", "April", "May", "June", "July",
                "August", "September", "October", "November", "December">>

Spaces(n) == SubSeq("          ", 1, n)

\* n in at least `width` digits
ZeroPadded(n, width) ==
    LET digits == ToString(n)
    IN  SubSeq("0000", 1, width - Len(digits)) \o digits

\* the date in the k-th of the formats D.M.Y, D-M-Y, D/M/Y, D-Mon-Y,
\* D-Month-Y, Y-M-D; day and month in two digits or as they are
Written(y, m, d, k, two) ==
    LET dd == IF two THEN ZeroPadded(d, 2) ELSE ToString(d)
        mm == IF two THEN ZeroPadded(m, 2) ELSE ToString(m)
        yyyy == ZeroPadded(y, 4)
    IN  CASE k = 1 -> dd \o "." \o mm \o "." \o yyyy
          [] k = 2 -> dd \o "-" \o mm \o "-" \o yyyy
          [] k = 3 -> dd \o "/" \o mm \o "/" \o yyyy
          [] k = 4 -> dd \o "-" \o SubSeq(MonthNames[m], 1, 3) \o "-" \o yyyy
          [] k = 5 -> dd \o "-" \o MonthNames[m] \o "-" \o yyyy
          [] k = 6 -> yyyy \o "-" \o mm \o "-" \o dd

\* texts that are a date in none of the six formats
NoDates ==
    { None, "", "32.13.2025", "29.02.2025", "31-Nov-2025", " 32.13.2025 ", "12.12.25",
      "2025/12/12", "12 Dec 2025", "1.2.2025x", "abc", " ", "..", "00.01.2025",
      "12-Sept-2025", "2025-13-01", "1..2.2025", "01.10.2025-31.10.2025", "\t1.2.3\n",
      "1.2/2025", " 1.2/2025", "01/02.2025", "29.02/2025", "1.2-2025", "1.2/0999" }

\* the sides of a period and the words between them
Sides == {"01-Nov-2025", "30-Nov-2025", "01.10.2025", "ab", ""}
Between == {"-", "to", "TO", EnDash}

DateCalls ==
    { [op |-> "format_date", y |-> y, m |-> m, d |-> d, k |-> k, two |-> two, pad |-> pad] :
        y \in Years, m \in 1..12, d \in Days, k \in 1..6, two \in BOOLEAN, pad \in 0..MaxPad }

InitDate ==
    /\ padYear \in BOOLEAN
    /\ NoBatch
    /\ calls = <<>>
    /\ \/ \E call \in DateCalls : ValidDate(call.y, call.m, call.d) /\ arg = call
       \/ \E text \in NoDates : arg = [op |-> "format_date", text |-> text]
       \/ \E text \in {None, "", "abc", "01.10.2025"} :
             arg = [op |-> "parse_invoice_period", text |-> text]
       \/ \E left, right \in Sides : \E word \in Between : \E before, after \in 0..MaxPad :
             arg = [op |-> "parse_invoice_period",
                    text |-> left \o Spaces(before) \o word \o Spaces(after) \o right]
    /\ pc = "call"
    /\ ret = None

\* the text a call of format_date is made on
DateText(call) ==
    IF "text" \in DOMAIN call THEN call.text
    ELSE Spaces(call.pad) \o Written(call.y, call.m, call.d, call.k, call.two) \o Spaces(call.pad)

FormatDate ==
    /\ pc = "call"
    /\ arg.op = "format_date"
    /\ ret' = format_date(DateText(arg))
    /\ pc' = "return"
    /\ UNCHANGED <<padYear, files, idx, results, errors, tmp_path, tmpFiles, response, calls, arg>>

ParsePeriod ==
    /\ pc = "call"
    /\ arg.op = "parse_invoice_period"
    /\ ret' = parse_invoice_period(arg.text)
    /\ pc' = "return"
    /\ UNCHANGED <<padYear, files, idx, results, errors, tmp_path, tmpFiles, response, calls, arg>>

\* format_date on what format_date returned
FormatDateAgain ==
    /\ pc = "return"
    /\ arg.op = "format_date"
    /\ arg' = [op |-> "format_date", date_str |-> DateText(arg), once |-> ret]
    /\ ret' = format_date(ret)
    /\ pc' = "again"
    /\ UNCHANGED <<padYear, files, idx, results, errors, tmp_path, tmpFiles, response, calls>>

NextDate ==
    \/ FormatDate
    \/ ParsePeriod
    \/ FormatDateAgain

SpecDate == InitDate /\ [][NextDate]_vars

FormattedDate == pc = "return" /\ arg.op = "format_date" /\ "text" \notin DOMAIN arg
FormattedText == pc = "return" /\ arg.op = "format_date" /\ "text" \in DOMAIN arg
ParsedPeriod == pc = "return" /\ arg.op = "parse_invoice_period"

\* C8: for every valid calendar date, format_date of the date written in any
\* of the six formats, with or without whitespace around it, is the date as
\* DD/MM/YYYY, day and month in two digits and the year in four.
C8_SixFormats ==
    FormattedDate =>
        ret = ZeroPadded(arg.d, 2) \o "/" \o ZeroPadded(arg.m, 2) \o "/" \o ZeroPadded(arg.y, 4)

\* s with "/" for each "."
RECURSIVE Slashed(_)
Slashed(s) ==
    IF s = "" THEN ""
    ELSE (IF SubSeq(s, 1, 1) = "." THEN "/" ELSE SubSeq(s, 1, 1)) \o Slashed(SubSeq(s, 2, Len(s)))

FirstAt(s, sep) ==
    LET at == { i \in 1..(Len(s) - Len(sep) + 1) : SubSeq(s, i, i + Len(sep) - 1) = sep }
    IN  IF at = {} THEN 0 ELSE Min(at)

\* the period the text stands for when each side is handed to Side before
\* format_date: the split at the first occurrence of the first of " - ",
\* " to ", "-", dash that occurs in the text
PeriodBy(text, Side(_)) ==
    LET seps == <<" - ", " to ", "-", EnDash>>
        Dates(from, to) == <<from, to, calculate_billing_frequency(from, to)>>
        Halves(sep, at) ==
            Dates(format_date(Side(SubSeq(text, 1, at - 1))),
                  format_date(Side(SubSeq(text, at + Len(sep), Len(text)))))
        SplitBy(k) == Halves(seps[k], FirstAt(text, seps[k]))
        Occurring(found) == IF found = {} THEN <<"", "", "">> ELSE SplitBy(Min(found))
    IN  IF text \in {None, ""} THEN <<"", "", "">>
        ELSE Occurring({ k \in 1..4 : FirstAt(text, seps[k]) > 0 })

AsItIs(side) == side

\* C10 (as amended): parse_invoice_period tries " - ", " to ", "-" and the
\* dash in that order and splits once, at the first occurrence of the first
\* of them that occurs; it returns format_date of the left side and of the
\* right side, each stripped of surrounding whitespace before it is handed to
\* format_date, and calculate_billing_frequency of the two results.  So
\* "01-Nov-2025 to 30-Nov-2025" gives 01/11/2025 and 30/11/2025. An empty or
\* None input, and one with none of the separators, gives ("", "", "").
C10_PeriodSplit ==
    ParsedPeriod =>
        /\ ret = PeriodBy(arg.text, Strip)
        /\ arg.text = "01-Nov-2025 to 30-Nov-2025"
              => ret[1] = "01/11/2025" /\ ret[2] = "30/11/2025"

\* C10 as stated: the two sides go to format_date as the split leaves them
C10_AsStated ==
    ParsedPeriod => ret = PeriodBy(arg.text, AsItIs)

C10_Witness ==
    /\ ParsedPeriod
    /\ arg.text = "01-Nov-2025 to 30-Nov-2025"
    /\ ret = <<"01/11/2025", "30/11/2025", "Monthly">>

(***************************************************************************)
(* The extractors on their own (specification SpecParse).  A call is made  *)
(* by one of the three parsers on some of the lines of one of the texts of *)
(* tests/test_parsers.py: all of them but a few, a few of them, or none.   *)
(***************************************************************************)
MaxLines == 1

Fixtures ==
    [cloudxp |-> CLOUDXP_SAMPLE_LINES, rjil |-> RJIL_SAMPLE_LINES, jtl |-> JTL_SAMPLE_LINES]

WrittenLines(lines) == { k \in 1..Len(lines) : lines[k] # "" }

\* the sets of at most n elements of S
UpTo(S, n) == { T \in SUBSET S : Cardinality(T) <= n }

\* the lines numbered in kept, in their order, as a text; no line, no text
KeptText(lines, kept) ==
    LET Nth(n) == CHOOSE k \in kept : Cardinality({ j \in kept : j < k }) = n - 1
    IN  IF kept = {} THEN ""
        ELSE TextOf(Tuple([n \in 1..Cardinality(kept) |-> lines[Nth(n)]]))

InitParse ==
    /\ padYear \in BOOLEAN
    /\ NoBatch
    /\ calls = <<>>
    /\ \E parser, text \in DOMAIN Fixtures :
          \/ /\ parser = text
             /\ \E dropped \in UpTo(WrittenLines(Fixtures[text]), MaxLines) :
                   arg = [parser |-> parser, text |-> text,
                          kept |-> (1..Len(Fixtures[text])) \ dropped]
          \/ /\ parser = text
             /\ \E kept \in UpTo(WrittenLines(Fixtures[text]), MaxLines) :
                   arg = [parser |-> parser, text |-> text, kept |-> kept]
          \/ /\ parser # text
             /\ arg = [parser |-> parser, text |-> text, kept |-> 1..Len(Fixtures[text])]
    /\ pc = "call"
    /\ ret = None

Parse ==
    /\ pc = "call"
    /\ ret' = parsers(arg.parser, KeptText(Fixtures[arg.text], arg.kept))
    /\ pc' = "return"
    /\ UNCHANGED <<padYear, files, idx, results, errors, tmp_path, tmpFiles, response, calls, arg>>

SpecParse == InitParse /\ [][Parse]_vars

\* what the code returns for "" and for the three texts
DEFAULT_EXPECTED ==
    [invoice_no |-> "", invoice_date |-> "", gst_registration |-> "", gst_state |-> "",
     party_customer |-> "", order_no |-> "", order_date |-> "",
     invoice_period_from |-> "", invoice_period_to |-> "", billing_frequency |-> "",
     tds_applicable |-> "Yes", gst_tds_applicable |-> "No",
     ledger_name |-> "Bulk SMS Charges", submitted_qty |-> "", submitted_rate |-> "",
     dlt_qty |-> "", delivered_qty |-> "", delivered_rate |-> "", amount |-> "",
     cgst |-> "", sgst |-> "", total_amount |-> "", remarks |-> ""]

CLOUDXP_EXPECTED ==
    [invoice_no |-> "CXP2025001234", invoice_date |-> "15/11/2025",
     gst_registration |-> "27AABCN1234Q1ZM", gst_state |-> "Maharashtra",
     party_customer |-> "NSE CLEARING LIMITED", order_no |-> "ASL/ 5500546061",
     order_date |-> "10/08/2025", invoice_period_from |-> "01/11/2025",
     invoice_period_to |-> "30/11/2025", billing_frequency |-> "Monthly",
     tds_applicable |-> "Yes", gst_tds_applicable |-> "No",
     ledger_name |-> "Bulk SMS Charges - Nov-25 to Nov-25",
     submitted_qty |-> "12394994", submitted_rate |-> "0.020000",
     dlt_qty |-> "12394994", delivered_qty |-> "9881102", delivered_rate |-> "0.090000",
     amount |-> "1137199.06", cgst |-> "102347.92", sgst |-> "102347.92",
     total_amount |-> "1341894.90", remarks |-> "PROMOTIONAL"]

RJIL_EXPECTED ==
    [invoice_no |-> "987654321", invoice_date |-> "25/10/2025",
     gst_registration |-> "27AAGCR1234E1ZR", gst_state |-> "Maharashtra",
     party_customer |-> "NSE CLEARING LIMITED", order_no |-> "2526NSCCLIT94",
     order_date |-> "01/10/2025", invoice_period_from |-> "01/10/2025",
     invoice_period_to |-> "31/10/2025", billing_frequency |-> "Monthly",
     tds_applicable |-> "Yes", gst_tds_applicable |-> "No",
     ledger_name |-> "Bulk SMS Charges - Oct-25 to Oct-25", submitted_qty |-> "",
     submitted_rate |-> "", dlt_qty |-> "", delivered_qty |-> "500000",
     delivered_rate |-> "", amount |-> "75000.00", cgst |-> "6750.00",
     sgst |-> "6750.00", total_amount |-> "88500.00", remarks |-> "TRANSACTIONAL"]

JTL_EXPECTED ==
    [invoice_no |-> "JTL2025004567", invoice_date |-> "20/12/2025",
     gst_registration |-> "27AABCJ5678P1Z5", gst_state |-> "Maharashtra",
     party_customer |-> "BHARATIYA JANATA PARTY", order_no |-> "77001234",
     order_date |-> "", invoice_period_from |-> "01/12/2025",
     invoice_period_to |-> "31/12/2025", billing_frequency |-> "Monthly",
     tds_applicable |-> "Yes", gst_tds_applicable |-> "No",
     ledger_name |-> "Bulk SMS Charges - Dec-25 to Dec-25", submitted_qty |-> "50000",
     submitted_rate |-> "", dlt_qty |-> "50000", delivered_qty |-> "250000",
     delivered_rate |-> "", amount |-> "21000.00", cgst |-> "1890.00",
     sgst |-> "1890.00", total_amount |-> "24780.00", remarks |-> "TRANSACTIONAL"]

Expected == [cloudxp |-> CLOUDXP_EXPECTED, rjil |-> RJIL_EXPECTED, jtl |-> JTL_EXPECTED]

PeriodFields == {"invoice_period_from", "invoice_period_to", "billing_frequency", "ledger_name"}
GstFields == {"gst_registration", "gst_state"}

\* for each text, the lines that the patterns of some fields match, with
\* those fields
Feeds ==
    [cloudxp |->
        { <<{4}, {"invoice_no"}>>, <<{5}, {"invoice_date"}>>, <<{6}, GstFields>>,
          <<{8}, {"party_customer"}>>, <<{11}, {"order_no", "order_date"}>>,
          <<{12}, PeriodFields>>, <<{14, 15}, {"delivered_qty", "delivered_rate"}>>,
          <<{17, 18}, {"submitted_qty", "submitted_rate", "dlt_qty"}>>,
          <<{21}, {"amount"}>>, <<{23}, {"cgst"}>>, <<{24}, {"sgst"}>>,
          <<{26}, {"total_amount"}>>, <<{28}, {"remarks"}>> },
     rjil |->
        { <<{4}, {"invoice_no"}>>, <<{5}, {"invoice_date"}>>, <<{6}, GstFields>>,
          <<{8}, {"party_customer"}>>, <<{10}, {"order_no"}>>, <<{11}, {"order_date"}>>,
          <<{12}, PeriodFields>>, <<{14}, {"delivered_qty"}>>, <<{16}, {"amount"}>>,
          <<{18}, {"cgst"}>>, <<{19}, {"sgst"}>>, <<{21}, {"total_amount"}>>,
          <<{23}, {"remarks"}>> },
     jtl |->
        { <<{4}, {"invoice_no"}>>, <<{5}, {"invoice_date"}>>, <<{6}, GstFields>>,
          <<{9}, {"party_customer"}>>, <<{11}, {"order_no"}>>, <<{12}, PeriodFields>>,
          <<{14}, {"submitted_qty", "dlt_qty"}>>, <<{16}, {"delivered_qty"}>>,
          <<{18}, {"amount"}>>, <<{20}, {"cgst"}>>, <<{21}, {"sgst"}>>,
          <<{23}, {"total_amount"}>>, <<{25}, {"remarks"}>> }]

\* the lines the pattern of field f matches in the text
LinesOf(text, f) == UNION { feed[1] : feed \in { g \in Feeds[text] : f \in g[2] } }

\* the patterns that, their own lines missing, match in lines left: the
\* line item after "Delivered Segment" in the one after "Submitted Segment",
\* the name after "Recipient" in the heading "ORIGINAL FOR RECIPIENT ..."
Elsewhere(text, f, kept) ==
    IF text = "cloudxp" /\ f \in {"delivered_qty", "delivered_rate"}
          /\ kept \cap {14, 15, 17, 18} = {14, 18}
    THEN IF f = "delivered_qty" THEN "12394994" ELSE "0.020000"
    ELSE IF text = "rjil" /\ f = "party_customer" /\ kept \cap {1, 2, 8} = {1, 2}
    THEN "Tax Invoice\nReliance Jio Infocomm Limited"
    ELSE None

Parsed == pc = "return" /\ "parser" \in DOMAIN arg

\* C2: parse returns a record for every text and never raises; a field
\* whose pattern finds no match holds its default, and the other fields are
\* extracted all the same: with some lines of a text missing, each field
\* whose lines are there has the value it has for the whole text, and each
\* other field its default (unless its pattern matches in a line left).
\* parse("") is the all-default record: tds_applicable "Yes",
\* gst_tds_applicable "No", ledger_name "Bulk SMS Charges", the rest "".
C2_FieldsDefault ==
    Parsed =>
        /\ ~ret.raised
        /\ DOMAIN ret.data = ExtractedFields
        /\ AllStrings(ret.data)
        /\ arg.kept = {} => ret.data = DEFAULT_EXPECTED
        /\ arg.parser = arg.text =>
              \A f \in ExtractedFields :
                 ret.data[f] = IF LinesOf(arg.text, f) \subseteq arg.kept
                               THEN Expected[arg.text][f]
                               ELSE IF Elsewhere(arg.text, f, arg.kept) # None
                               THEN Elsewhere(arg.text, f, arg.kept)
                               ELSE DEFAULT_EXPECTED[f]

C2_Witness ==
    /\ Parsed
    /\ arg = [parser |-> "jtl", text |-> "jtl", kept |-> (1..Len(JTL_SAMPLE_LINES)) \ {12}]
    /\ ret.data.invoice_period_from = ""
    /\ ret.data.ledger_name = "Bulk SMS Charges"
    /\ ret.data.total_amount = "24780.00"

(***************************************************************************)
(* Calls one after another on the parser instances of main.py and on the   *)
(* detector (specification SpecCalls); calls records each call with what   *)
(* it returned.                                                            *)
(***************************************************************************)
MaxCalls == 3

CallTexts ==
    { "Invoice No. 12\nDate: 01.01.0999\nRemarks: Bulk SMS Service - PROMO\n",
      "Jio Things Limited\nInvoice No. 7\nInvoice Period: 01.12.2025-31.12.2025\n" }

InitCalls ==
    /\ padYear \in BOOLEAN
    /\ NoBatch
    /\ calls = <<>>
    /\ arg = None
    /\ pc = "call"
    /\ ret = None

CallDetect ==
    /\ Len(calls) < MaxCalls
    /\ \E text \in CallTexts :
          calls' = Append(calls, Called("detect", text, <<detect_invoice_type(text)>>))
    /\ UNCHANGED <<padYear, files, idx, results, errors, tmp_path, tmpFiles, response, arg, pc, ret>>

CallParse ==
    /\ Len(calls) < MaxCalls
    /\ \E invoice_type \in {"cloudxp", "rjil", "jtl"} : \E text \in CallTexts :
          calls' = Append(calls, Called(invoice_type, text, <<parsers(invoice_type, text)>>))
    /\ UNCHANGED <<padYear, files, idx, results, errors, tmp_path, tmpFiles, response, arg, pc, ret>>

NextCalls ==
    \/ CallDetect
    \/ CallParse

SpecCalls == InitCalls /\ [][NextCalls]_vars

MaxWhole == 14

WholeYears == {2023, 2024}
PairYears == {2024, 2025}
PairMonths == {1, 2, 3, 6, 10, 12}
PairDays == {1, 15, 28, 29, 30, 31}

\* the date as DD/MM/YYYY
Canonical(dt) == Written(dt.y, dt.m, dt.d, 3, TRUE)

DateOf(y, m, d) == [y |-> y, m |-> m, d |-> d]

\* the last day of the month n months after month m of year y
LastDayAfter(y, m, n) ==
    LET months == (m - 1) + n
        year   == y + (months \div 12)
        month  == (months % 12) + 1
    IN  DateOf(year, month, DaysInMonth(year, month))

PairDates ==
    { DateOf(y, m, d) : y \in PairYears, m \in PairMonths, d \in PairDays }

\* texts that are not a DD/MM/YYYY calendar date
NotCanonical ==
    { None, "", "01-Nov-2025", "01.11.2025", "32/13/2025", "31/11/2025", "29/02/2025",
      "00/11/2025", "ab", "01/11/25", " 01/11/2025", "01/11/2025 ", "2025/11/01",
      "01/11/2025x", "01/Nov/2025" }

SomeCanonical == {"01/11/2025", "30/11/2025", "29/02/2024"}

PeriodOps == {"calculate_billing_frequency", "generate_ledger_name"}

InitHelpers ==
    /\ padYear \in BOOLEAN
    /\ NoBatch
    /\ calls = <<>>
    /\ \/ \E y \in WholeYears : \E m \in 1..12 : \E k \in 1..MaxWhole :
             arg = [op |-> "calculate_billing_frequency", k |-> k,
                    from |-> Canonical(DateOf(y, m, 1)),
                    to |-> Canonical(LastDayAfter(y, m, k - 1))]
       \/ \E op \in PeriodOps : \E start, end \in PairDates :
             /\ ValidDate(start.y, start.m, start.d)
             /\ ValidDate(end.y, end.m, end.d)
             /\ arg = [op |-> op, start |-> start, end |-> end,
                       from |-> Canonical(start), to |-> Canonical(end)]
       \/ \E op \in PeriodOps : \E from, to \in NotCanonical \cup SomeCanonical :
             /\ from \in NotCanonical \/ to \in NotCanonical
             /\ arg = [op |-> op, from |-> from, to |-> to]
    /\ pc = "call"
    /\ ret = None

BillingFrequency ==
    /\ pc = "call"
    /\ arg.op = "calculate_billing_frequency"
    /\ ret' = calculate_billing_frequency(arg.from, arg.to)
    /\ pc' = "return"
    /\ UNCHANGED <<padYear, files, idx, results, errors, tmp_path, tmpFiles, response, calls, arg>>

LedgerName ==
    /\ pc = "call"
    /\ arg.op = "generate_ledger_name"
    /\ ret' = generate_ledger_name(arg.from, arg.to)
    /\ pc' = "return"
    /\ UNCHANGED <<padYear, files, idx, results, errors, tmp_path, tmpFiles, response, calls, arg>>

NextHelpers ==
    \/ BillingFrequency
    \/ LedgerName

SpecHelpers == InitHelpers /\ [][NextHelpers]_vars

ReturnedFrom(op) == pc = "return" /\ arg.op = op

\* C11: a period of k whole calendar months, from the first day of a month
\* to the last day of the month k-1 months later, is "Monthly" for k = 1,
\* "Quarterly" for k in 2..3, "Half-Yearly" for k in 4..6, "Yearly" for k in
\* 7..12 and "k Months" for k > 12, leap years included.
C11_WholeMonths ==
    ReturnedFrom("calculate_billing_frequency") /\ "k" \in DOMAIN arg =>
        ret = CASE arg.k = 1 -> "Monthly"
                [] arg.k \in 2..3 -> "Quarterly"
                [] arg.k \in 4..6 -> "Half-Yearly"
                [] arg.k \in 7..12 -> "Yearly"
                [] arg.k > 12 -> ToString(arg.k) \o " Months"

C11_Witness ==
    /\ ReturnedFrom("calculate_billing_frequency")
    /\ "k" \in DOMAIN arg
    /\ arg.from = "01/02/2024"
    /\ arg.to = "29/02/2024"
    /\ ret = "Monthly"

\* the label the month count n stands for
LabelOf(n) ==
    IF n <= 1 THEN "Monthly"
    ELSE IF n <= 3 THEN "Quarterly"
    ELSE IF n <= 6 THEN "Half-Yearly"
    ELSE IF n <= 12 THEN "Yearly"
    ELSE ToString(n) \o " Months"

\* the calendar difference from start to end: the whole months n that bring
\* start as near to end as they can without passing it (the day clipped to
\* the month's length), and the days then left to end
WholeMonths(start, end) ==
    LET span == 12 * (Max(PairYears) - Min(PairYears) + 1)
        At(n) == AddMonths(start, n)
    IN  IF DateLess(end, start)
        THEN CHOOSE n \in (-span)..0 : ~DateLess(At(n), end) /\ DateLess(At(n - 1), end)
        ELSE CHOOSE n \in 0..span : ~DateLess(end, At(n)) /\ DateLess(end, At(n + 1))

DaysLeft(start, end) == Ordinal(end) - Ordinal(AddMonths(start, WholeMonths(start, end)))

BetweenDates == ReturnedFrom("calculate_billing_frequency") /\ "start" \in DOMAIN arg

\* C12 (as amended): for two valid canonical dates the month count is
\* years*12 + months of the calendar difference between them, plus one
\* exactly when that difference leaves a positive number of days (the end
\* lies after the start moved by the whole months), whether the end's day of
\* the month is above or below the start's; the label is taken from that
\* count.  The count so found is the difference of the month numbers of the
\* two dates plus one exactly when the end's day exceeds the start's.
C12_MonthCount ==
    BetweenDates =>
        /\ ret = LabelOf(WholeMonths(arg.start, arg.end)
                         + (IF DaysLeft(arg.start, arg.end) > 0 THEN 1 ELSE 0))
        /\ ret = LabelOf((arg.end.y - arg.start.y) * 12 + (arg.end.m - arg.start.m)
                         + (IF arg.end.d > arg.start.d THEN 1 ELSE 0))

\* C12 as stated: the extra month goes by the days of the month alone
C12_AsStated ==
    BetweenDates =>
        ret = LabelOf(WholeMonths(arg.start, arg.end)
                      + (IF arg.end.d > arg.start.d THEN 1 ELSE 0))

C12_Witness ==
    /\ BetweenDates
    /\ arg.from = "15/01/2025"
    /\ arg.to = "01/03/2025"
    /\ WholeMonths(arg.start, arg.end) = 1
    /\ DaysLeft(arg.start, arg.end) = 14
    /\ ret = "Quarterly"

\* a call of op with an argument that is empty or no DD/MM/YYYY date
NotBetweenDates(op) == ReturnedFrom(op) /\ "start" \notin DOMAIN arg /\ "k" \notin DOMAIN arg

\* C13: calculate_billing_frequency returns "" (and raises nothing) when
\* either argument is None or empty or is not a DD/MM/YYYY calendar date: a
\* date in another format, an impossible date, a text that format_date let
\* through.
C13_NoFrequency ==
    NotBetweenDates("calculate_billing_frequency") => ret = ""

C13_Witness ==
    /\ NotBetweenDates("calculate_billing_frequency")
    /\ arg.from = "01/11/2025"
    /\ arg.to = "31/11/2025"
    /\ ret = ""

\* the month and year of a date as Mon-YY
MonYY(dt) == SubSeq(MonthNames[dt.m], 1, 3) \o "-" \o ZeroPadded(dt.y % 100, 2)

\* C14: generate_ledger_name returns "Bulk SMS Charges" when either bound
\* is None or empty or is not a DD/MM/YYYY date, and otherwise
\* "Bulk SMS Charges - Mon-YY to Mon-YY" with the three-letter month and the
\* two-digit year of each bound: 01/10/2025, 31/12/2025 gives
\* "Bulk SMS Charges - Oct-25 to Dec-25".
C14_LedgerName ==
    /\ NotBetweenDates("generate_ledger_name") => ret = "Bulk SMS Charges"
    /\ ReturnedFrom("generate_ledger_name") /\ "start" \in DOMAIN arg =>
          /\ ret = "Bulk SMS Charges - " \o MonYY(arg.start) \o " to " \o MonYY(arg.end)
          /\ arg.from = "01/10/2025" /\ arg.to = "31/12/2025"
                => ret = "Bulk SMS Charges - Oct-25 to Dec-25"

C14_Witness ==
    /\ ReturnedFrom("generate_ledger_name")
    /\ arg.from = "01/10/2025"
    /\ arg.to = "31/12/2025"
    /\ ret = "Bulk SMS Charges - Oct-25 to Dec-25"


(***************************************************************************)
(* The extractors on written texts (specification SpecText): one call of   *)
(* a parser on a text written for one of its patterns (the registration    *)
(* number, a usage line item, an amount, the recipient), or one call of    *)
(* get_state_from_gst, or one call of extract_field.                       *)
(***************************************************************************)
MaxGap == 2

Parsers == {"cloudxp", "rjil", "jtl"}

GstNumbers ==
    { None, "", "2", "7", "27", "27AABCZ7217Q1ZM", "29AABCZ7217Q1ZM", "07AAACR5055K1Z5",
      "38", "01X", "00AABCZ7217Q1ZM", "39AABCZ7217Q1ZM", "99", "AB", "ABCDE", " 27AABCZ7217Q1ZM",
      "2 7", "Z7", "7Z" }

\* registration numbers as a text may show them
WrittenGstNumbers ==
    { "27AABCN1234Q1ZM", "07AAACR5055K1Z5", "99AABCN1234Q1ZM", "27AABCN1234Q1ZMX",
      "27AABC", "2", "ab27AABCN1234Q1" }

\* quantities with thousands separators and a fractional part
Quantities == {"98,81,102.00", "1,23,94,994.00", "50,000.5", "1,000."}

Rates == {"0.090000", "0.020000", "00.50", "1.2.3"}

\* a line item as the template has it, without its heading, under another
\* description, or without its rate column
Shapes == {"whole", "headless", "other", "rateless"}

Amounts == {"11,37,199.06", "1,02,347.92", "1,000", "75000.00", "0.5", "12,", ",", "1,2,3."}

AmountFields == {"amount", "cgst", "sgst", "total_amount"}

\* the line items of each template
Items == [cloudxp |-> {"delivered", "submitted"}, rjil |-> {"delivered"},
          jtl |-> {"delivered", "submitted"}]

\* the lines of a usage line item
ItemLines(parser, item, qty, rate, shape) ==
    LET columns == "998599 " \o qty \o (IF parser = "rjil" THEN " EA" ELSE "")
                   \o (IF shape = "rateless" THEN "" ELSE " " \o rate) \o " 8,89,299.18"
        heading == CASE parser = "cloudxp" /\ item = "delivered" -> "Delivered Segment Charges"
                     [] parser = "cloudxp" /\ item = "submitted" -> "Submitted Segment DLT"
                     [] parser = "rjil" -> "BULK SMS"
                     [] parser = "jtl" /\ item = "delivered" -> "BSS SERVICE CHARGE"
                     [] parser = "jtl" /\ item = "submitted" -> "SMS # SCRUBBING"
        service == IF shape = "other" THEN "Voice Service" ELSE "SMS Service"
    IN  IF parser = "cloudxp"
        THEN (IF shape = "headless" THEN <<>> ELSE <<heading>>)
             \o <<"1 " \o service \o " " \o columns>>
        ELSE <<(CASE shape = "headless" -> ""
                  [] shape = "other" -> "VOICE CHARGE "
                  [] OTHER -> heading \o " ") \o columns>>

\* the line of an amount
AmountLine(parser, field, amount) ==
    (CASE field = "amount" ->
            (CASE parser = "cloudxp" -> "Total Amount: "
               [] parser = "rjil" -> "Total Amount Excluding Taxes "
               [] parser = "jtl" -> "Total Taxable value ")
       [] field = "cgst" -> IF parser = "rjil" THEN "CGST 9.00% " ELSE "CGST @9% "
       [] field = "sgst" -> IF parser = "rjil" THEN "SGST 9.00% " ELSE "SGST @9% "
       [] field = "total_amount" ->
            (CASE parser = "cloudxp" -> "Grand Total (Including Tax): "
               [] parser = "rjil" -> "Grand Total (Including GST) "
               [] parser = "jtl" -> "Total ( Value is inclusive of Tax ) ")) \o amount

\* the line of the supplier's registration number
GstLine(parser, id) ==
    (IF parser = "cloudxp" THEN "GST Registration Number: " ELSE "GSTIN ") \o id

RJ_Header == "ORIGINAL FOR RECIPIENT Tax Invoice"
RJ_Supplier == "Reliance Jio Infocomm Limited"

\* the lines "Recipient <name and address>" of template B
RJ_Recipients ==
    { "Recipient NSE CLEARING LIMITED, C1 BLOCK G, MUMBAI", "Recipient ACME TRADERS 24",
      "  Recipient   NSE CLEARING LTD , MUMBAI" }

\* the lines of template C: "Recipient No <number>" with gap blanks between
\* the two words, and "Recipient <name>"
JT_RecipientNo(gap) == "Recipient" \o Spaces(gap) \o "No    8140817"
JT_RecipientName == "Recipient       BHARATIYA JANATA PARTY"

\* lines that carry the date of the order under the labels of the templates
OrderDateLines ==
    { "PO Date: 10.08.2025", "PO Number: ASL/ 5500546061 PO Date: 10.08.2025",
      "PO Date. 01.10.2025", "Order Date: 10/08/2025", "ORN: 77001234 PO Date : 10-Aug-2025" }

\* the combined line item of template B, its quantity without a fraction
RJ_BulkSmsLine == "BULK SMS 998599 5,00,000 EA 0.150000 75,000.00"

\* texts with remarks: what the text has after its first remarks label,
\* without the boilerplate prefix when it starts with one, in capitals;
\* and whether the prefix is written twice
WrittenRemarks ==
    { [lines |-> <<"Remarks: Bulk SMS Service - promotional">>,
       emitted |-> "PROMOTIONAL", twice |-> FALSE],
      [lines |-> <<"Remarks: Bulk SMS Service - Bulk SMS Service - promo">>,
       emitted |-> "BULK SMS SERVICE - PROMO", twice |-> TRUE],
      [lines |-> <<"Remarks: BulkSMSService-bulk sms service:otp">>,
       emitted |-> "BULK SMS SERVICE:OTP", twice |-> TRUE],
      [lines |-> <<"remark bulk sms service: Otp alerts  ">>,
       emitted |-> "OTP ALERTS", twice |-> FALSE],
      [lines |-> <<"Remarks: Transactional">>, emitted |-> "TRANSACTIONAL", twice |-> FALSE],
      [lines |-> <<"Remarks: Bulk SMS Service promo">>,
       emitted |-> "BULK SMS SERVICE PROMO", twice |-> FALSE],
      [lines |-> <<"Remarks: Bulk SMS Service -">>, emitted |-> "", twice |-> FALSE],
      [lines |-> <<"Remarks:", "Bulk SMS Service - next line">>,
       emitted |-> "NEXT LINE", twice |-> FALSE],
      [lines |-> <<"Remarks: first", "Remarks: Bulk SMS Service - second">>,
       emitted |-> "FIRST", twice |-> FALSE],
      [lines |-> <<"Some other text">>, emitted |-> "", twice |-> FALSE] }

\* invoice periods as the templates write them, and whether both sides are
\* dates of the calendar (day, month and year in this order, the month in
\* digits or by its name)
WrittenPeriods ==
    [cloudxp |->
        { [period |-> "01-Nov-2025 to 30-Nov-2025", dated |-> TRUE],
          [period |-> "01-Oct-2025 - 31-Dec-2025", dated |-> TRUE],
          [period |-> "01-November-2025 to 30-November-2025", dated |-> TRUE],
          [period |-> "30-Nov-2025 to 01-Nov-2025", dated |-> TRUE],
          [period |-> "1/Nov/2025 to 30.Nov.2025", dated |-> FALSE],
          [period |-> "31-Nov-2025 to 30-Nov-2025", dated |-> FALSE],
          [period |-> "01-Nov-2025 to 31-Nov-2025", dated |-> FALSE],
          [period |-> "01-Foo-2025 to 30-Nov-2025", dated |-> FALSE],
          [period |-> "01-Nov-2025-30-Nov-2025", dated |-> FALSE],
          [period |-> "n/a", dated |-> FALSE] },
     rjil |->
        { [period |-> "01.10.2025-31.10.2025", dated |-> TRUE],
          [period |-> "01.10.2025 - 31.12.2025", dated |-> TRUE],
          [period |-> "1/2/2024 - 29/2/2024", dated |-> TRUE],
          [period |-> "31.10.2025-01.10.2025", dated |-> TRUE],
          [period |-> "31.11.2025-30.11.2025", dated |-> FALSE],
          [period |-> "01.10.2025-31.13.2025", dated |-> FALSE],
          [period |-> "01.10/2025-31.10.2025", dated |-> TRUE],
          [period |-> "01.10.2025 to 31.10.2025", dated |-> FALSE],
          [period |-> "n/a", dated |-> FALSE] },
     jtl |->
        { [period |-> "01.12.2025-31.12.2025", dated |-> TRUE],
          [period |-> "01.12.2025 ~ 31.12.2026", dated |-> TRUE],
          [period |-> "1/2/2024 - 29/2/2024", dated |-> TRUE],
          [period |-> "31.12.2025-01.12.2025", dated |-> TRUE],
          [period |-> "29.02.2025-31.03.2025", dated |-> FALSE],
          [period |-> "01.12.2025-00.12.2025", dated |-> FALSE],
          [period |-> "01.12/2025-31.12.2025", dated |-> TRUE],
          [period |-> "n/a", dated |-> FALSE] }]

TextCalls ==
    { [op |-> "parse", parser |-> parser, field |-> "order_date", lines |-> <<line>>] :
         parser \in Parsers, line \in OrderDateLines }
    \cup
    UNION { { [op |-> "parse", parser |-> parser, field |-> "period", period |-> written.period,
               dated |-> written.dated, lines |-> <<"Invoice Period: " \o written.period>>] :
                 written \in WrittenPeriods[parser] } :
            parser \in Parsers }
    \cup
    { [op |-> "parse", parser |-> parser, field |-> "remarks", emitted |-> written.emitted,
       twice |-> written.twice, lines |-> written.lines] :
         parser \in Parsers, written \in WrittenRemarks }
    \cup
    UNION { { [op |-> "parse", parser |-> "rjil", field |-> "other_item", of |-> other,
               item |-> item, qty |-> qty, bulk |-> bulk,
               lines |-> (IF bulk THEN <<RJ_BulkSmsLine>> ELSE <<>>)
                         \o ItemLines(other, item, qty, "0.020000", "whole")] :
                 item \in Items[other], qty \in Quantities, bulk \in BOOLEAN } :
            other \in {"cloudxp", "jtl"} }
    \cup
    { [op |-> "parse", parser |-> parser, field |-> "gst", id |-> id,
       lines |-> <<GstLine(parser, id)>>] :
         parser \in Parsers, id \in WrittenGstNumbers }
    \cup
    UNION { { [op |-> "parse", parser |-> parser, field |-> "item", item |-> item,
               qty |-> qty, rate |-> rate, shape |-> shape,
               lines |-> ItemLines(parser, item, qty, rate, shape)] :
                 item \in Items[parser], qty \in Quantities, rate \in Rates, shape \in Shapes } :
            parser \in Parsers }
    \cup
    { [op |-> "parse", parser |-> parser, field |-> field, amount |-> amount,
       lines |-> <<AmountLine(parser, field, amount)>>] :
         parser \in Parsers, field \in AmountFields, amount \in Amounts }
    \cup
    { [op |-> "parse", parser |-> "rjil", field |-> "recipient", named |-> FALSE,
       lines |-> lines] :
         lines \in { <<RJ_Header>>, <<RJ_Header, RJ_Supplier>>, <<RJ_Supplier>>, <<>> } }
    \cup
    { [op |-> "parse", parser |-> "rjil", field |-> "recipient", named |-> TRUE,
       lines |-> before \o <<line>>] :
         before \in { <<RJ_Header>>, <<RJ_Header, RJ_Supplier>>, <<>> }, line \in RJ_Recipients }
    \cup
    { [op |-> "parse", parser |-> "jtl", field |-> "recipient", named |-> named, gap |-> gap,
       lines |-> (IF gap = 0 THEN <<>> ELSE <<JT_RecipientNo(gap)>>)
                 \o (IF named THEN <<JT_RecipientName>> ELSE <<>>)] :
         named \in BOOLEAN, gap \in 0..MaxGap }

MaxFieldLines == 2

\* the patterns of the calls of extract_field: an invoice number, the
\* remarks, the columns of a line item
FieldPatterns ==
    [invoice_number |-> CX_InvoiceNumber, remarks |-> RemarksRe,
     line_item |-> IgnoreCase(CX_LineItem)]

\* the groups of each pattern
FieldGroups == [invoice_number |-> {1}, remarks |-> {1}, line_item |-> {1, 2}]

\* lines that a pattern matches, each with the text of its groups, and
\* lines that none matches
FieldLines ==
    { [line |-> "Invoice Number: ABC123", pattern |-> "invoice_number", groups |-> <<"ABC123">>],
      [line |-> "invoice number XYZ789 Invoice Number: Q1", pattern |-> "invoice_number",
       groups |-> <<"XYZ789">>],
      [line |-> "Remarks:  first remark \t ", pattern |-> "remarks", groups |-> <<"first remark">>],
      [line |-> "No remark : second", pattern |-> "remarks", groups |-> <<"second">>],
      [line |-> "1 SMS Service 998599 1,000.00 0.02 20.00", pattern |-> "line_item",
       groups |-> <<"998599", "1,000.00">>],
      [line |-> "2 Bulk  SMS 998598 2,000. 0.09 180.00", pattern |-> "line_item",
       groups |-> <<"998598", "2,000.">>],
      [line |-> "Some other text", pattern |-> "", groups |-> <<>>],
      [line |-> "", pattern |-> "", groups |-> <<>>] }

\* the texts of at most n lines
FieldTexts(n) == UNION { [1..k -> FieldLines] : k \in 0..n }

LinesOfText(written) == Tuple([k \in 1..Len(written) |-> written[k].line])

FieldCalls ==
    { [op |-> "extract_field", pattern |-> pattern, group |-> group, written |-> written] :
         pattern \in DOMAIN FieldPatterns, group \in 1..2, written \in FieldTexts(MaxFieldLines) }

InitText ==
    /\ padYear \in BOOLEAN
    /\ NoBatch
    /\ calls = <<>>
    /\ \/ arg \in TextCalls
       \/ arg \in { call \in FieldCalls : call.group \in FieldGroups[call.pattern] }
       \/ \E gst_number \in GstNumbers :
             arg = [op |-> "get_state_from_gst", gst_number |-> gst_number]
    /\ pc = "call"
    /\ ret = None

ParseText ==
    /\ pc = "call"
    /\ arg.op = "parse"
    /\ ret' = parsers(arg.parser, TextOf(arg.lines))
    /\ pc' = "return"
    /\ UNCHANGED <<padYear, files, idx, results, errors, tmp_path, tmpFiles, response, calls, arg>>

StateFromGst ==
    /\ pc = "call"
    /\ arg.op = "get_state_from_gst"
    /\ ret' = get_state_from_gst(arg.gst_number)
    /\ pc' = "return"
    /\ UNCHANGED <<padYear, files, idx, results, errors, tmp_path, tmpFiles, response, calls, arg>>

ExtractField ==
    /\ pc = "call"
    /\ arg.op = "extract_field"
    /\ ret' = extract_field(TextOf(LinesOfText(arg.written)), FieldPatterns[arg.pattern], arg.group)
    /\ pc' = "return"
    /\ UNCHANGED <<padYear, files, idx, results, errors, tmp_path, tmpFiles, response, calls, arg>>

NextText ==
    \/ ParseText
    \/ StateFromGst
    \/ ExtractField

SpecText == InitText /\ [][NextText]_vars

ParsedText(field) == pc = "return" /\ arg.op = "parse" /\ arg.field = field

\* the state-table entry for the first two characters of id
StateOf(id) ==
    IF id = None THEN ""
    ELSE IF Len(id) < 2 THEN ""
    ELSE IF \E code \in DOMAIN GST_STATE_CODES : StartsWith(id, code)
    THEN GST_STATE_CODES[CHOOSE code \in DOMAIN GST_STATE_CODES : StartsWith(id, code)]
    ELSE ""

\* C15: get_state_from_gst is "" for None, for "" and for a text of fewer
\* than two characters, and otherwise the entry of the state table for the
\* text's first two characters, "" when the table has none; and in the
\* record of every extractor gst_state is that state of the record's
\* gst_registration.
C15_StateOfNumber ==
    /\ ReturnedFrom("get_state_from_gst") => ret = StateOf(arg.gst_number)
    /\ pc = "return" /\ arg.op = "parse" =>
          ret.data.gst_state = StateOf(ret.data.gst_registration)

C15_Witness ==
    /\ ParsedText("gst")
    /\ arg.parser = "jtl"
    /\ ret.data.gst_registration = "07AAACR5055K1Z5"
    /\ ret.data.gst_state = "Delhi"

\* s without the characters of chars
RECURSIVE Without(_, _)
Without(s, chars) ==
    IF s = "" THEN ""
    ELSE (IF SubSeq(s, 1, 1) \in chars THEN "" ELSE SubSeq(s, 1, 1))
         \o Without(SubSeq(s, 2, Len(s)), chars)

\* the digits of a quantity before its decimal point
IntegerPart(qty) ==
    LET point == FirstAt(qty, ".")
    IN  Without(IF point = 0 THEN qty ELSE SubSeq(qty, 1, point - 1), {","})

\* the quantity and the rate a record holds for an item
QuantityOf(data, item) == IF item = "delivered" THEN data.delivered_qty ELSE data.submitted_qty
RateOf(data, item) == IF item = "delivered" THEN data.delivered_rate ELSE data.submitted_rate

\* C16: in each of the three extractors, a usage line item of the template
\* whose quantity is written with thousands separators and a fractional part
\* gives the quantity's integer part without the separators (98,81,102.00
\* gives 9881102).
C16_QuantityTruncated ==
    ParsedText("item") /\ arg.shape = "whole" =>
        QuantityOf(ret.data, arg.item) = IntegerPart(arg.qty)

\* C17: in template A a delivered or submitted line item that matches gives
\* the rate as the text has it, digit for digit (0.090000 stays 0.090000);
\* one that does not match leaves the item's rate and quantity "".
C17_RateAsWritten ==
    ParsedText("item") /\ arg.parser = "cloudxp" =>
        /\ arg.shape = "whole" =>
              /\ RateOf(ret.data, arg.item) = arg.rate
              /\ arg.rate = "0.090000" => RateOf(ret.data, arg.item) = "0.090000"
        /\ arg.shape # "whole" =>
              /\ RateOf(ret.data, arg.item) = ""
              /\ QuantityOf(ret.data, arg.item) = ""

C17_Witness ==
    /\ ParsedText("item")
    /\ arg.parser = "cloudxp"
    /\ arg.item = "delivered"
    /\ arg.shape = "whole"
    /\ arg.qty = "98,81,102.00"
    /\ ret.data.delivered_rate = "0.090000"
    /\ ret.data.delivered_qty = "9881102"
    /\ ret.data.submitted_rate = ""

\* C18: in the record of every extractor amount, cgst, sgst and
\* total_amount hold no comma; each is the amount the text has for it with
\* the commas taken out and the decimal point kept, and "" when the text has
\* none for it.
C18_NoCommas ==
    pc = "return" /\ arg.op = "parse" =>
        \A f \in AmountFields :
           /\ ~Contains(ret.data[f], ",")
           /\ ret.data[f] = IF arg.field = f THEN Without(arg.amount, {","}) ELSE ""

C18_Witness ==
    /\ ParsedText("total_amount")
    /\ arg.parser = "jtl"
    /\ arg.amount = "11,37,199.06"
    /\ ret.data.total_amount = "1137199.06"
    /\ ret.data.amount = ""

\* the name of a line "Recipient <name>, <address>"
NameOf(line) ==
    LET rest  == Strip(SubSeq(Strip(line), Len("Recipient") + 1, Len(Strip(line))))
        comma == FirstAt(rest, ",")
    IN  Strip(IF comma = 0 THEN rest ELSE SubSeq(rest, 1, comma - 1))

\* C19: in template B party_customer never comes from the page heading: it
\* is never taken from a line with "FOR RECIPIENT" and never holds heading
\* words such as "Tax Invoice"; it is "" when that line is the only one with
\* "Recipient", and the text after the label up to the first comma when a
\* line starting with "Recipient" follows.
C19_NotFromHeader ==
    ParsedText("recipient") /\ arg.parser = "rjil" =>
        /\ ~Contains(StrUpper(ret.data.party_customer), "TAX INVOICE")
        /\ ret.data.party_customer =
              IF arg.named THEN NameOf(arg.lines[Len(arg.lines)]) ELSE ""

\* C20: in template C party_customer never comes from the label
\* "Recipient No", however many blanks stand between the two words (it never
\* is "No <number>"); it is the name after a "Recipient" that no "No"
\* follows, and "" without one.
C20_NotFromRecipientNo ==
    ParsedText("recipient") /\ arg.parser = "jtl" =>
        /\ ~StartsWith(StrUpper(ret.data.party_customer), "NO ")
        /\ ret.data.party_customer = IF arg.named THEN "BHARATIYA JANATA PARTY" ELSE ""

\* C21: every record of the Template C extractor has order_date "", whatever
\* the text, a text with a "PO Date" or another order-date label included.
C21_NoOrderDate ==
    Parsed /\ arg.parser = "jtl" => ret.data.order_date = ""

C21_Witness ==
    /\ ParsedText("order_date")
    /\ arg.parser = "jtl"
    /\ arg.lines = <<"PO Date: 10.08.2025">>
    /\ ret.data.order_date = ""

\* C22: Template B has one combined usage line item: in every record of
\* its extractor submitted_qty, dlt_qty, submitted_rate and delivered_rate
\* are "", whatever the text (the line items of the other templates
\* included), and delivered_qty is filled from the BULK SMS line only.
C22_CombinedLineItem ==
    /\ Parsed /\ arg.parser = "rjil" =>
          /\ ret.data.submitted_qty = ""
          /\ ret.data.dlt_qty = ""
          /\ ret.data.submitted_rate = ""
          /\ ret.data.delivered_rate = ""
    /\ ParsedText("other_item") =>
          ret.data.delivered_qty = (IF arg.bulk THEN "500000" ELSE "")

C22_Witness ==
    /\ ParsedText("other_item")
    /\ arg.of = "cloudxp"
    /\ arg.item = "submitted"
    /\ arg.bulk
    /\ ret.data.delivered_qty = "500000"
    /\ ret.data.submitted_qty = ""
    /\ ret.data.dlt_qty = ""

\* the lines of the text that the pattern of the call matches
MatchedLines == { k \in 1..Len(arg.written) : arg.written[k].pattern = arg.pattern }

\* C23: extract_field takes the first match of the pattern in the order of
\* the text: it returns the group of that match without the whitespace
\* around it, whatever matches follow, and None (not "", and no exception)
\* when the pattern matches nowhere.
C23_FirstMatch ==
    ReturnedFrom("extract_field") =>
        IF MatchedLines = {} THEN ret = None
        ELSE ret = arg.written[Min(MatchedLines)].groups[arg.group]

C23_Witness ==
    /\ ReturnedFrom("extract_field")
    /\ arg.pattern = "remarks"
    /\ LinesOfText(arg.written) = <<"Remarks:  first remark \t ", "No remark : second">>
    /\ ret = "first remark"

\* the text starts with the boilerplate prefix
PrefixedRemarks(remarks) == ReMatchAt(RemarksPrefixRe, remarks, 1).ok

NoLowerCase(s) == CharsOf(s) \cap LowerLetters = {}

\* C24 as stated: in every record remarks has no lower-case letter and
\* does not start with the boilerplate prefix.
C24_AsStated ==
    Parsed => NoLowerCase(ret.data.remarks) /\ ~PrefixedRemarks(ret.data.remarks)

\* C24: in every record remarks is "" or what the text has after its first
\* remarks label with the boilerplate prefix "Bulk SMS Service -" (or ":")
\* removed once when it starts with it, in capitals: it has no lower-case
\* letter, and it starts with the prefix only when the text has the prefix
\* twice.
C24_RemarksCleaned ==
    /\ Parsed => NoLowerCase(ret.data.remarks)
    /\ ParsedText("remarks") =>
          /\ ret.data.remarks = arg.emitted
          /\ PrefixedRemarks(ret.data.remarks) => arg.twice
    /\ Parsed /\ arg.field # "remarks" => ret.data.remarks = ""

C24_Witness ==
    /\ ParsedText("remarks")
    /\ arg.parser = "rjil"
    /\ arg.lines = <<"Remarks: Bulk SMS Service - Bulk SMS Service - promo">>
    /\ ret.data.remarks = "BULK SMS SERVICE - PROMO"


(***************************************************************************)
(* services/csv_generator.py and services/excel_generator.py               *)
(* (specification SpecExport): both generators on one list of records      *)
(***************************************************************************)
\* excel_generator.TALLY_COLUMNS
TALLY_COLUMNS ==
    << "Sr. No.", "Invoice Type", "Product", "Invoice No", "Invoice Date", "GST Registration",
       "GST State", "Party/Customer", "Order No", "Order Date", "Invoice Period From",
       "Invoice Period To", "Billing Frequency", "TDS Applicable", "GST TDS Applicable",
       "Ledger Name", "Submitted Qty", "Submitted Rate", "Delivered Qty", "Delivered Rate",
       "Amount", "CGST", "SGST", "Total Amount (with Tax)" >>

\* csv_generator.TALLY_COLUMNS
CSV_COLUMNS ==
    << "Sr. No.", "Invoice Type", "Product", "Invoice No", "Invoice Date", "GST Registration",
       "GST State", "Party/Customer", "Order No", "Order Date", "Invoice Period From",
       "Invoice Period To", "Billing Frequency", "TDS Applicable", "GST TDS Applicable",
       "Ledger Name", "Submitted Qty", "Submitted Rate", "Delivered Qty", "Delivered Rate",
       "Amount", "CGST", "SGST", "Total Amount (with Tax)" >>

\* invoice.get(key, default)
dict_get(invoice, key, default) == IF key \in DOMAIN invoice THEN invoice[key] ELSE default

\* the byte order mark of the "utf-8-sig" encoding
BOM == "<BOM>"

\* the columns after Sr. No. of row_data in generate_csv
csv_row_data(invoice) ==
    << StrUpper(dict_get(invoice, "invoice_type", "")),
       dict_get(invoice, "product", "SMS"),
       dict_get(invoice, "invoice_no", ""),
       dict_get(invoice, "invoice_date", ""),
       dict_get(invoice, "gst_registration", ""),
       dict_get(invoice, "gst_state", ""),
       dict_get(invoice, "party_customer", ""),
       dict_get(invoice, "order_no", ""),
       dict_get(invoice, "order_date", ""),
       dict_get(invoice, "invoice_period_from", ""),
       dict_get(invoice, "invoice_period_to", ""),
       dict_get(invoice, "billing_frequency", ""),
       dict_get(invoice, "tds_applicable", "Yes"),
       dict_get(invoice, "gst_tds_applicable", "No"),
       dict_get(invoice, "ledger_name", ""),
       dict_get(invoice, "submitted_qty", ""),
       dict_get(invoice, "submitted_rate", ""),
       dict_get(invoice, "delivered_qty", ""),
       dict_get(invoice, "delivered_rate", ""),
       dict_get(invoice, "amount", ""),
       dict_get(invoice, "cgst", ""),
       dict_get(invoice, "sgst", ""),
       dict_get(invoice, "total_amount", "") >>

\* the concatenation of the texts of a sequence (halving keeps it shallow)
RECURSIVE JoinAll(_)
JoinAll(texts) ==
    IF Len(texts) = 0 THEN ""
    ELSE IF Len(texts) = 1 THEN texts[1]
    ELSE LET h == Len(texts) \div 2
         IN  JoinAll(SubSeq(texts, 1, h)) \o JoinAll(SubSeq(texts, h + 1, Len(texts)))

\* a field as csv.writer writes it (QUOTE_MINIMAL): in quotes, its quotes
\* doubled, when it holds the delimiter, a quote or a line end
csv_field(value) ==
    IF CharsOf(value) \cap {",", "\"", "\n", "\r"} = {} THEN value
    ELSE "\"" \o JoinAll(Tuple([k \in 1..Len(value) |->
                                   IF SubSeq(value, k, k) = "\"" THEN "\"\""
                                   ELSE SubSeq(value, k, k)])) \o "\""

\* a writer that puts the fields as they are between the commas
writerow_unquoted(fields) ==
    JoinAll(Tuple([k \in 1..Len(fields) |-> (IF k = 1 THEN "" ELSE ",") \o fields[k]])) \o "\r\n"

\* csv.writer(output).writerow(fields), the fields already as text
writerow(fields) ==
    JoinAll(Tuple([k \in 1..Len(fields) |->
                     (IF k = 1 THEN "" ELSE ",") \o csv_field(fields[k])])) \o "\r\n"

\* generate_csv(data): the text of the buffer it returns
generate_csv(data) ==
    BOM \o writerow(CSV_COLUMNS)
        \o JoinAll(Tuple([row_idx \in 1..Len(data) |->
                            writerow(<<ToString(row_idx)>> \o csv_row_data(data[row_idx]))]))

\* the columns after Sr. No. of row_data in generate_excel
excel_row_data(invoice) ==
    << StrUpper(dict_get(invoice, "invoice_type", "")),
       dict_get(invoice, "product", "SMS"),
       dict_get(invoice, "invoice_no", ""),
       dict_get(invoice, "invoice_date", ""),
       dict_get(invoice, "gst_registration", ""),
       dict_get(invoice, "gst_state", ""),
       dict_get(invoice, "party_customer", ""),
       dict_get(invoice, "order_no", ""),
       dict_get(invoice, "order_date", ""),
       dict_get(invoice, "invoice_period_from", ""),
       dict_get(invoice, "invoice_period_to", ""),
       dict_get(invoice, "billing_frequency", ""),
       dict_get(invoice, "tds_applicable", "Yes"),
       dict_get(invoice, "gst_tds_applicable", "No"),
       dict_get(invoice, "ledger_name", ""),
       dict_get(invoice, "submitted_qty", ""),
       dict_get(invoice, "submitted_rate", ""),
       dict_get(invoice, "delivered_qty", ""),
       dict_get(invoice, "delivered_rate", ""),
       dict_get(invoice, "amount", ""),
       dict_get(invoice, "cgst", ""),
       dict_get(invoice, "sgst", ""),
       dict_get(invoice, "total_amount", "") >>

\* the worksheet before generate_excel fills it
NoWorksheet == [title |-> "", header |-> <<>>, numbers |-> <<>>, rows |-> <<>>,
                widths |-> <<>>, freeze_panes |-> ""]

\* generate_excel(data): the worksheet of the workbook it saves: the header
\* cells of row 1, then for each record the number in column 1 and the
\* texts of columns 2 to 24; the column widths; the frozen header
generate_excel(data) ==
    LET rows == Tuple([k \in 1..Len(data) |-> excel_row_data(data[k])])
        \* enumerate(data, 2) and `row_idx - 1`
        numbers == Tuple([k \in 1..Len(data) |-> (k + 1) - 1])
        Lengths(col_idx) ==
            {Len(TALLY_COLUMNS[col_idx])}
            \cup (IF col_idx = 1 THEN { Len(ToString(numbers[k])) : k \in 1..Len(data) }
                  ELSE { Len(rows[k][col_idx - 1]) : k \in 1..Len(data) })
        Width(longest) == IF longest + 2 < 40 THEN longest + 2 ELSE 40
    IN  [title |-> "Tally Import",
         header |-> TALLY_COLUMNS,
         numbers |-> numbers,
         rows |-> rows,
         widths |-> Tuple([col_idx \in 1..Len(TALLY_COLUMNS) |-> Width(Max(Lengths(col_idx)))]),
         freeze_panes |-> "A2"]

MaxRecords == 2

\* records as process_invoices hands them on (the fields of an extractor,
\* invoice_type and filename), and dicts with some keys only
ExportRecords ==
    { [invoice_type |-> "cloudxp", filename |-> "a.pdf"] @@ CLOUDXP_EXPECTED,
      [invoice_type |-> "rjil", filename |-> "b.pdf"]
         @@ [RJIL_EXPECTED EXCEPT !.party_customer = "Tax Invoice\nReliance Jio Infocomm Limited"],
      [invoice_type |-> "jtl", filename |-> "c.pdf"] @@ DEFAULT_EXPECTED,
      [invoice_type |-> "Jtl", product |-> "Voice", invoice_no |-> "INV001",
       party_customer |-> "ACME \"TRADERS\", MUMBAI"] }

InitExport ==
    /\ padYear \in BOOLEAN
    /\ NoBatch
    /\ calls = <<>>
    /\ \E n \in 0..MaxRecords : \E data \in [1..n -> ExportRecords] :
          arg = [op |-> "export", data |-> data]
    /\ pc = "call"
    /\ ret = [made |-> {}, csv |-> "", excel |-> NoWorksheet]

GenerateCsv ==
    /\ pc = "call"
    /\ "csv" \notin ret.made
    /\ ret' = [ret EXCEPT !.made = @ \cup {"csv"}, !.csv = generate_csv(arg.data)]
    /\ pc' = IF ret'.made = {"csv", "excel"} THEN "return" ELSE "call"
    /\ UNCHANGED <<padYear, files, idx, results, errors, tmp_path, tmpFiles, response, calls, arg>>

GenerateExcel ==
    /\ pc = "call"
    /\ "excel" \notin ret.made
    /\ ret' = [ret EXCEPT !.made = @ \cup {"excel"}, !.excel = generate_excel(arg.data)]
    /\ pc' = IF ret'.made = {"csv", "excel"} THEN "return" ELSE "call"
    /\ UNCHANGED <<padYear, files, idx, results, errors, tmp_path, tmpFiles, response, calls, arg>>

NextExport ==
    \/ GenerateCsv
    \/ GenerateExcel

SpecExport == InitExport /\ [][NextExport]_vars

\* the places of text where sep stands outside quotes, in their order
CutsOf(text, sep) ==
    LET cuts == { i \in 1..(Len(text) - Len(sep) + 1) :
                    /\ SubSeq(text, i, i + Len(sep) - 1) = sep
                    /\ Cardinality({ j \in 1..(i - 1) : SubSeq(text, j, j) = "\"" }) % 2 = 0 }
    IN  Tuple([n \in 1..Cardinality(cuts) |->
                 CHOOSE i \in cuts : Cardinality({ j \in cuts : j < i }) = n - 1])

\* the pieces of text that end with a sep outside quotes
PiecesOf(text, sep) ==
    LET Pieces(cuts) ==
            Tuple([n \in 1..Len(cuts) |->
                     SubSeq(text, IF n = 1 THEN 1 ELSE cuts[n - 1] + Len(sep), cuts[n] - 1)])
    IN  Pieces(CutsOf(text, sep))

\* the text of a quoted field, its doubled quotes single again
RECURSIVE Unquoted(_)
Unquoted(s) ==
    LET q == Find(s, "\"\"", 1)
    IN  IF q = 0 THEN s ELSE SubSeq(s, 1, q) \o Unquoted(SubSeq(s, q + 2, Len(s)))

\* csv.reader on the text: its rows, each the sequence of its fields
ReadRows(text) ==
    LET Field(piece) == IF StartsWith(piece, "\"") THEN Unquoted(SubSeq(piece, 2, Len(piece) - 1))
                        ELSE piece
        Fields(pieces) == Tuple([k \in 1..Len(pieces) |-> Field(pieces[k])])
        Rows(lines) == Tuple([k \in 1..Len(lines) |-> Fields(PiecesOf(lines[k] \o ",", ","))])
    IN  Rows(PiecesOf(text, "\r\n"))

\* the rows of a CSV text decoded as "utf-8-sig"
csv_rows(text) ==
    IF StartsWith(text, BOM) THEN ReadRows(SubSeq(text, Len(BOM) + 1, Len(text)))
    ELSE ReadRows(text)

\* the key and the default of each column after the first two
ColumnKeys ==
    << "product", "invoice_no", "invoice_date", "gst_registration", "gst_state",
       "party_customer", "order_no", "order_date", "invoice_period_from", "invoice_period_to",
       "billing_frequency", "tds_applicable", "gst_tds_applicable", "ledger_name",
       "submitted_qty", "submitted_rate", "delivered_qty", "delivered_rate", "amount", "cgst",
       "sgst", "total_amount" >>

ColumnDefault(key) ==
    CASE key = "product" -> "SMS"
      [] key = "tds_applicable" -> "Yes"
      [] key = "gst_tds_applicable" -> "No"
      [] OTHER -> ""

\* the cell of column c >= 2 for a record
CellOf(invoice, c) ==
    IF c = 2 THEN (IF "invoice_type" \in DOMAIN invoice THEN StrUpper(invoice.invoice_type) ELSE "")
    ELSE IF ColumnKeys[c - 2] \in DOMAIN invoice THEN invoice[ColumnKeys[c - 2]]
    ELSE ColumnDefault(ColumnKeys[c - 2])

Exported == pc = "return" /\ arg.op = "export"

\* the table of the CSV text and the worksheet hold the header and the
\* records of data
TablesOf(data, table, sheet) ==
    /\ Len(TALLY_COLUMNS) = 24
    /\ table[1] = TALLY_COLUMNS
    /\ sheet.header = TALLY_COLUMNS
    /\ Len(table) = 1 + Len(data)
    /\ Len(sheet.rows) = Len(data)
    /\ Len(sheet.numbers) = Len(data)
    /\ \A k \in 1..Len(data) :
          /\ Len(table[k + 1]) = 24
          /\ Len(sheet.rows[k]) = 23
          /\ table[k + 1][1] = ToString(k)
          /\ sheet.numbers[k] = k
          /\ \A c \in 2..24 :
                /\ table[k + 1][c] = CellOf(data[k], c)
                /\ sheet.rows[k][c - 1] = table[k + 1][c]

\* C25: generate_csv and generate_excel each emit the 24 column names in
\* their order and then one row for each record, in the order of the
\* records, its first cell the position of the record counted from 1; no
\* record, the header only; and for the same records both emit the same
\* column names and the same cell values.
C25_SameTable ==
    Exported => TablesOf(arg.data, csv_rows(ret.csv), ret.excel)

C25_Witness ==
    /\ Exported
    /\ Len(arg.data) = 2
    /\ arg.data[1].invoice_type = "Jtl"
    /\ arg.data[2].invoice_type = "rjil"
    /\ csv_rows(ret.csv)[2][8] = "ACME \"TRADERS\", MUMBAI"
    /\ csv_rows(ret.csv)[3][1] = "2"
    /\ ret.excel.rows[2][7] = "Tax Invoice\nReliance Jio Infocomm Limited"

\* "Bulk SMS Charges - Mon-YY to Mon-YY"
PeriodSuffixed(ledger_name) ==
    /\ Len(ledger_name) = Len("Bulk SMS Charges - Mon-YY to Mon-YY")
    /\ StartsWith(ledger_name, "Bulk SMS Charges - ")
    /\ SubSeq(ledger_name, 26, 29) = " to "
    /\ \A at \in {20, 30} :
          /\ SubSeq(ledger_name, at, at + 2) \in { SubSeq(MonthNames[m], 1, 3) : m \in 1..12 }
          /\ SubSeq(ledger_name, at + 3, at + 3) = "-"
          /\ CharsOf(SubSeq(ledger_name, at + 4, at + 5)) \subseteq Digits

\* C26: in every record billing_frequency and ledger_name agree:
\* billing_frequency is "" exactly when ledger_name is the bare
\* "Bulk SMS Charges", and not "" exactly when ledger_name has the suffix
\* " - Mon-YY to Mon-YY"; both are there exactly when the text has a period
\* whose two sides are dates of the calendar.
C26_FrequencyAndLedger ==
    /\ Parsed =>
          /\ ret.data.billing_frequency = "" <=> ret.data.ledger_name = "Bulk SMS Charges"
          /\ ret.data.billing_frequency # "" <=> PeriodSuffixed(ret.data.ledger_name)
    /\ ParsedText("period") =>
          (ret.data.billing_frequency # "") = arg.dated

C26_Witness ==
    /\ ParsedText("period")
    /\ arg.parser = "cloudxp"
    /\ arg.period = "01-Nov-2025 to 31-Nov-2025"
    /\ ret.data.invoice_period_from = "01/11/2025"
    /\ ret.data.invoice_period_to = "31-Nov-2025"
    /\ ret.data.billing_frequency = ""
    /\ ret.data.ledger_name = "Bulk SMS Charges"

\* C27: in every record dlt_qty equals submitted_qty: both the quantity of
\* the submitted/DLT line item when the text has it, both "" when it has
\* none, and both "" always for Template B.
C27_DltAsSubmitted ==
    /\ Parsed =>
          /\ ret.data.dlt_qty = ret.data.submitted_qty
          /\ arg.parser = "rjil" => ret.data.dlt_qty = "" /\ ret.data.submitted_qty = ""
          /\ arg.field # "item" => ret.data.submitted_qty = ""
    /\ ParsedText("item") =>
          ret.data.submitted_qty =
             (IF arg.parser # "rjil" /\ arg.item = "submitted" /\ arg.shape = "whole"
              THEN IntegerPart(arg.qty) ELSE "")

C27_Witness ==
    /\ ParsedText("item")
    /\ arg.parser = "jtl"
    /\ arg.item = "submitted"
    /\ arg.qty = "1,23,94,994.00"
    /\ ret.data.submitted_qty = "12394994"
    /\ ret.data.dlt_qty = "12394994"
    /\ ret.data.delivered_qty = ""

\* format_date(format_date(date_str)) has been computed
FormattedAgain == pc = "again"

\* a text that is a date in none of the six formats and is one once "/"
\* stands for each "."
DateOnceSlashed(date_str) ==
    /\ date_str # None
    /\ ParsingFormats(date_str) = {}
    /\ ParsingFormats(Slashed(date_str)) # {}

ReversedPeriod ==
    /\ ReturnedFrom("calculate_billing_frequency")
    /\ "start" \in DOMAIN arg
    /\ DateLess(arg.end, arg.start)

\* C29: for two valid canonical dates with to_date strictly earlier than
\* from_date, calculate_billing_frequency returns "Monthly": the months from
\* from_date to to_date are zero or fewer, no day is left over to add a month
\* for, and the result is neither "" nor any other label.
C29_ReversedMonthly ==
    ReversedPeriod =>
        /\ ret = "Monthly"
        /\ relativedelta(arg.end, arg.start).total_months <= 0
        /\ relativedelta(arg.end, arg.start).days <= 0

C29_Witness ==
    /\ ReversedPeriod
    /\ arg.from = "15/10/2025"
    /\ arg.to = "01/01/2024"
    /\ ret = "Monthly"

\* C30: process_invoices leaves no temporary file behind: when the next
\* upload is about to be processed and when the response is returned, every
\* temporary file created so far has been deleted, whichever way the
\* iterations ended (the write of the temporary file failing included).
C30_NoTmpFileLeft ==
    pc \in {"loop", "done"} => tmpFiles = {}
====
